---- MODULE Spec2Model ----
(***************************************************************************)
(* TtsEngine (src/src/index.ts, lines 714-1305): the synthesis pipeline,   *)
(* the result cache and the audio finishing step of Speak-Easy.            *)
(*                                                                         *)
(* A call is one invocation of a public synthesize* method.  Its steps are *)
(* the points where the JavaScript code awaits an external operation (the  *)
(* remote service, the filesystem, the ffmpeg process); the synchronous    *)
(* code between two awaits runs inside one action.                         *)
(***************************************************************************)
EXTENDS Integers, Sequences, FiniteSets, TLC

(***************************************************************************)
(* Bounds of the model.                                                    *)
(***************************************************************************)
MaxCalls == 2       \* calls made on the engine in one behaviour
MaxRandomIdx == 2   \* getRandomVoice draws among the first catalog entries
MaxTime == 1        \* clock values 0..MaxTime seen by createSafeFileName
MaxFiles == 1       \* length of the request's files array
MaxFaults == 1      \* filesystem operations that fail in one behaviour
MaxListed == 2      \* file descriptors one listing of the remote store yields

Calls == 1..MaxCalls

(***************************************************************************)
(* JavaScript values.                                                      *)
(***************************************************************************)
NoVal == "<undefined>"

Truthy(s) == s # NoVal /\ s # ""

Or(a, b) == IF Truthy(a) THEN a ELSE b

(***************************************************************************)
(* Reference catalog (src/src/core/geminiTTSConfig.ts).                     *)
(***************************************************************************)
GEMINI_TTS_VOICES ==
    << "Zephyr", "Puck", "Charon", "Kore", "Fenrir", "Leda", "Orus", "Aoede",
       "Callirrhoe", "Autonoe", "Enceladus", "Iapetus", "Umbriel", "Algieba",
       "Despina", "Erinome", "Algenib", "Rasalgethi", "Laomedeia", "Achernar",
       "Alnilam", "Schedar", "Gacrux", "Pulcherrima", "Achird",
       "Zubenelgenubi", "Vindemiatrix", "Sadachbia", "Sadaltager", "Sulafat" >>

GEMINI_TTS_LANGUAGES ==
    << "ar-EG", "de-DE", "en-US", "es-US", "fr-FR", "hi-IN", "id-ID", "it-IT",
       "ja-JP", "ko-KR", "pt-BR", "ru-RU", "nl-NL", "pl-PL", "th-TH", "tr-TR",
       "vi-VN", "ro-RO", "uk-UA", "bn-BD", "en-IN", "mr-IN", "ta-IN", "te-IN" >>

\* variant: any non-empty voice name is accepted
isValidVoice_NonEmpty(voice) == Truthy(voice)

isValidVoice(voice) ==
    \E i \in 1..Len(GEMINI_TTS_VOICES) : GEMINI_TTS_VOICES[i] = voice

isValidLanguage(code) ==
    \E i \in 1..Len(GEMINI_TTS_LANGUAGES) : GEMINI_TTS_LANGUAGES[i] = code

\* String.prototype.toLowerCase on the strings of the model
ToLowerCase(s) ==
    CASE s = "Zephyr" -> "zephyr" [] s = "Puck" -> "puck"
      [] s = "Charon" -> "charon" [] s = "Kore" -> "kore"
      [] s = "Fenrir" -> "fenrir" [] s = "Leda" -> "leda"
      [] s = "Orus" -> "orus" [] s = "Aoede" -> "aoede"
      [] s = "Callirrhoe" -> "callirrhoe" [] s = "Autonoe" -> "autonoe"
      [] s = "Enceladus" -> "enceladus" [] s = "Iapetus" -> "iapetus"
      [] s = "Umbriel" -> "umbriel" [] s = "Algieba" -> "algieba"
      [] s = "Despina" -> "despina" [] s = "Erinome" -> "erinome"
      [] s = "Algenib" -> "algenib" [] s = "Rasalgethi" -> "rasalgethi"
      [] s = "Laomedeia" -> "laomedeia" [] s = "Achernar" -> "achernar"
      [] s = "Alnilam" -> "alnilam" [] s = "Schedar" -> "schedar"
      [] s = "Gacrux" -> "gacrux" [] s = "Pulcherrima" -> "pulcherrima"
      [] s = "Achird" -> "achird" [] s = "Zubenelgenubi" -> "zubenelgenubi"
      [] s = "Vindemiatrix" -> "vindemiatrix"
      [] s = "Sadachbia" -> "sadachbia" [] s = "Sadaltager" -> "sadaltager"
      [] s = "Sulafat" -> "sulafat" [] s = "ar-EG" -> "ar-eg"
      [] s = "de-DE" -> "de-de" [] s = "en-US" -> "en-us"
      [] s = "es-US" -> "es-us" [] s = "fr-FR" -> "fr-fr"
      [] s = "hi-IN" -> "hi-in" [] s = "id-ID" -> "id-id"
      [] s = "it-IT" -> "it-it" [] s = "ja-JP" -> "ja-jp"
      [] s = "ko-KR" -> "ko-kr" [] s = "pt-BR" -> "pt-br"
      [] s = "ru-RU" -> "ru-ru" [] s = "nl-NL" -> "nl-nl"
      [] s = "pl-PL" -> "pl-pl" [] s = "th-TH" -> "th-th"
      [] s = "tr-TR" -> "tr-tr" [] s = "vi-VN" -> "vi-vn"
      [] s = "ro-RO" -> "ro-ro" [] s = "uk-UA" -> "uk-ua"
      [] s = "bn-BD" -> "bn-bd" [] s = "en-IN" -> "en-in"
      [] s = "mr-IN" -> "mr-in" [] s = "ta-IN" -> "ta-in"
      [] s = "te-IN" -> "te-in" [] s = "Al" -> "al"
      [] OTHER -> s

\* file names and texts longer than the slices of lines 1088 and 1237, with
\* capitals, blanks and punctuation, or with nothing but punctuation
LongFileName == "My Report: Final (v2) -- draft for the board!"
LongText == "the quick brown fox jumps over the lazy dog and keeps running"
SymbolsFileName == "!!!"
VeryLongLength == 300

RECURSIVE Join(_)
\* the string of the given characters (the halves are joined, which keeps
\* the recursion shallow on long strings)
Join(chars) ==
    IF Len(chars) = 0 THEN ""
    ELSE IF Len(chars) = 1 THEN chars[1]
    ELSE LET mid == Len(chars) \div 2
         IN  Join(SubSeq(chars, 1, mid)) \o Join(SubSeq(chars, mid + 1, Len(chars)))

\* a file name of VeryLongLength characters
VeryLongFileName == Join([i \in 1..VeryLongLength |-> "a"])

LongTextChars ==
    <<"t", "h", "e", " ", "q", "u", "i", "c", "k", " ", "b", "r", "o", "w", "n", " ", "f", "o", "x", " ", "j", "u", "m", "p", "s", " ", "o", "v", "e", "r", " ", "t", "h", "e", " ", "l", "a", "z", "y", " ", "d", "o", "g", " ", "a", "n", "d", " ", "k", "e", "e", "p", "s", " ", "r", "u", "n", "n", "i", "n", "g">>

\* LongText.slice(0, 40)
LongTextHead == Join(SubSeq(LongTextChars, 1, 40))

\* the characters of a string: of a lower-cased catalog identifier, and of a
\* text or file name that becomes the base of a generated file name
Chars(s) ==
    CASE s = "hi" -> <<"h", "i">>
      [] s = "output" -> <<"o", "u", "t", "p", "u", "t">>
      [] s = LongFileName ->
            <<"M", "y", " ", "R", "e", "p", "o", "r", "t", ":", " ", "F", "i", "n", "a", "l", " ", "(", "v", "2", ")", " ", "-", "-", " ", "d", "r", "a", "f", "t", " ", "f", "o", "r", " ", "t", "h", "e", " ", "b", "o", "a", "r", "d", "!">>
      [] s = LongText -> LongTextChars
      [] s = LongTextHead -> SubSeq(LongTextChars, 1, 40)
      [] s = SymbolsFileName -> <<"!", "!", "!">>
      [] s = VeryLongFileName -> [i \in 1..VeryLongLength |-> "a"]
      [] s = "zephyr" -> <<"z", "e", "p", "h", "y", "r">>
      [] s = "puck" -> <<"p", "u", "c", "k">>
      [] s = "charon" -> <<"c", "h", "a", "r", "o", "n">>
      [] s = "kore" -> <<"k", "o", "r", "e">>
      [] s = "fenrir" -> <<"f", "e", "n", "r", "i", "r">>
      [] s = "leda" -> <<"l", "e", "d", "a">>
      [] s = "orus" -> <<"o", "r", "u", "s">>
      [] s = "aoede" -> <<"a", "o", "e", "d", "e">>
      [] s = "callirrhoe" -> <<"c", "a", "l", "l", "i", "r", "r", "h", "o", "e">>
      [] s = "autonoe" -> <<"a", "u", "t", "o", "n", "o", "e">>
      [] s = "enceladus" -> <<"e", "n", "c", "e", "l", "a", "d", "u", "s">>
      [] s = "iapetus" -> <<"i", "a", "p", "e", "t", "u", "s">>
      [] s = "umbriel" -> <<"u", "m", "b", "r", "i", "e", "l">>
      [] s = "algieba" -> <<"a", "l", "g", "i", "e", "b", "a">>
      [] s = "despina" -> <<"d", "e", "s", "p", "i", "n", "a">>
      [] s = "erinome" -> <<"e", "r", "i", "n", "o", "m", "e">>
      [] s = "algenib" -> <<"a", "l", "g", "e", "n", "i", "b">>
      [] s = "rasalgethi" -> <<"r", "a", "s", "a", "l", "g", "e", "t", "h", "i">>
      [] s = "laomedeia" -> <<"l", "a", "o", "m", "e", "d", "e", "i", "a">>
      [] s = "achernar" -> <<"a", "c", "h", "e", "r", "n", "a", "r">>
      [] s = "alnilam" -> <<"a", "l", "n", "i", "l", "a", "m">>
      [] s = "schedar" -> <<"s", "c", "h", "e", "d", "a", "r">>
      [] s = "gacrux" -> <<"g", "a", "c", "r", "u", "x">>
      [] s = "pulcherrima" -> <<"p", "u", "l", "c", "h", "e", "r", "r", "i", "m", "a">>
      [] s = "achird" -> <<"a", "c", "h", "i", "r", "d">>
      [] s = "zubenelgenubi" -> <<"z", "u", "b", "e", "n", "e", "l", "g", "e", "n", "u", "b", "i">>
      [] s = "vindemiatrix" -> <<"v", "i", "n", "d", "e", "m", "i", "a", "t", "r", "i", "x">>
      [] s = "sadachbia" -> <<"s", "a", "d", "a", "c", "h", "b", "i", "a">>
      [] s = "sadaltager" -> <<"s", "a", "d", "a", "l", "t", "a", "g", "e", "r">>
      [] s = "sulafat" -> <<"s", "u", "l", "a", "f", "a", "t">>
      [] s = "ar-eg" -> <<"a", "r", "-", "e", "g">>
      [] s = "de-de" -> <<"d", "e", "-", "d", "e">>
      [] s = "en-us" -> <<"e", "n", "-", "u", "s">>
      [] s = "es-us" -> <<"e", "s", "-", "u", "s">>
      [] s = "fr-fr" -> <<"f", "r", "-", "f", "r">>
      [] s = "hi-in" -> <<"h", "i", "-", "i", "n">>
      [] s = "id-id" -> <<"i", "d", "-", "i", "d">>
      [] s = "it-it" -> <<"i", "t", "-", "i", "t">>
      [] s = "ja-jp" -> <<"j", "a", "-", "j", "p">>
      [] s = "ko-kr" -> <<"k", "o", "-", "k", "r">>
      [] s = "pt-br" -> <<"p", "t", "-", "b", "r">>
      [] s = "ru-ru" -> <<"r", "u", "-", "r", "u">>
      [] s = "nl-nl" -> <<"n", "l", "-", "n", "l">>
      [] s = "pl-pl" -> <<"p", "l", "-", "p", "l">>
      [] s = "th-th" -> <<"t", "h", "-", "t", "h">>
      [] s = "tr-tr" -> <<"t", "r", "-", "t", "r">>
      [] s = "vi-vn" -> <<"v", "i", "-", "v", "n">>
      [] s = "ro-ro" -> <<"r", "o", "-", "r", "o">>
      [] s = "uk-ua" -> <<"u", "k", "-", "u", "a">>
      [] s = "bn-bd" -> <<"b", "n", "-", "b", "d">>
      [] s = "en-in" -> <<"e", "n", "-", "i", "n">>
      [] s = "mr-in" -> <<"m", "r", "-", "i", "n">>
      [] s = "ta-in" -> <<"t", "a", "-", "i", "n">>
      [] s = "te-in" -> <<"t", "e", "-", "i", "n">>
      [] OTHER -> <<>>


\* GEMINI_TTS_VOICES.map((v) => v.name.toLowerCase())
VoicesLower == [i \in 1..Len(GEMINI_TTS_VOICES) |-> ToLowerCase(GEMINI_TTS_VOICES[i])]

\* GEMINI_TTS_LANGUAGES.map((l) => l.code.toLowerCase())
LangsLower == [i \in 1..Len(GEMINI_TTS_LANGUAGES) |-> ToLowerCase(GEMINI_TTS_LANGUAGES[i])]

\* the strings each lower-cased catalog identifier starts with
Prefixes ==
    [ s \in {VoicesLower[i] : i \in DOMAIN VoicesLower}
               \cup {LangsLower[i] : i \in DOMAIN LangsLower} |->
        {Join(SubSeq(Chars(s), 1, k)) : k \in 0..Len(Chars(s))} ]

\* s.startsWith(prefix), for a lower-cased catalog identifier s
StartsWith(s, prefix) == prefix \in Prefixes[s]

\* Array.prototype.find, given the indexes of the elements that satisfy the
\* test: the first of them, 0 when there is none
Find(matching) ==
    IF matching = {} THEN 0
    ELSE CHOOSE i \in matching : \A j \in matching : i <= j

\* suggestVoice (lines 737-741)
suggestVoice(input) ==
    LET n == Len(GEMINI_TTS_VOICES)
        voices == VoicesLower
        lowered == ToLowerCase(input)
        m == Find({i \in 1..n : StartsWith(voices[i], lowered)})
        v == IF m = 0 THEN 0
             ELSE Find({i \in 1..n : VoicesLower[i] = voices[m]})
    IN  IF v = 0 THEN NoVal ELSE GEMINI_TTS_VOICES[v]

\* suggestLanguage (lines 743-747)
suggestLanguage(input) ==
    LET n == Len(GEMINI_TTS_LANGUAGES)
        langs == LangsLower
        lowered == ToLowerCase(input)
        m == Find({i \in 1..n : StartsWith(langs[i], lowered)})
        l == IF m = 0 THEN 0
             ELSE Find({i \in 1..n : LangsLower[i] = langs[m]})
    IN  IF l = 0 THEN NoVal ELSE GEMINI_TTS_LANGUAGES[l]

\* suggestion ? `Did you mean '${suggestion}'?` : `See ... for options.`
SuggestionText(suggestion, catalog) ==
    IF Truthy(suggestion) THEN "Did you mean '" \o suggestion \o "'?"
    ELSE "See " \o catalog \o " for options."

\* the TtsEngineError thrown for an unsupported voice (lines 1280-1288)
InvalidVoice(chosenVoice) ==
    [ ok |-> FALSE, code |-> "INVALID_VOICE", voice |-> chosenVoice, language |-> NoVal,
      suggestion |-> SuggestionText(suggestVoice(chosenVoice), "GEMINI_TTS_VOICES") ]

\* the TtsEngineError thrown for an unsupported language (lines 1293-1301)
InvalidLanguage(chosenVoice, chosenLanguage) ==
    [ ok |-> FALSE, code |-> "INVALID_LANGUAGE", voice |-> chosenVoice,
      language |-> chosenLanguage,
      suggestion |-> SuggestionText(suggestLanguage(chosenLanguage), "GEMINI_TTS_LANGUAGES") ]

\* return { chosenVoice, chosenLanguage } (line 1304)
Resolved(chosenVoice, chosenLanguage) ==
    [ ok |-> TRUE, code |-> NoVal, voice |-> chosenVoice, language |-> chosenLanguage,
      suggestion |-> NoVal ]

\* Math.floor(Math.random() * length), as a 1-based index
RandomIdxs == 1..MaxRandomIdx

\* variant: the random voice is returned in lower case
getRandomVoice_LowerCase(idx) == VoicesLower[idx]

getRandomVoice(idx) == GEMINI_TTS_VOICES[idx]

(***************************************************************************)
(* Engine configuration and request options.                                *)
(***************************************************************************)
DEFAULT_OUTPUT_DIR == "data/tts"

DefaultVoiceOpts == {NoVal, "Kore", "kore"}
DefaultLanguageOpts == {NoVal, "fr-FR"}

Configs ==
    [ useCache : BOOLEAN,
      defaultVoice : DefaultVoiceOpts,
      defaultLanguage : DefaultLanguageOpts ]

\* constructor: outputDir and cacheDir of an engine built without them
outputDir == DEFAULT_OUTPUT_DIR

cacheDir == outputDir \o "/cache"

\* a text that is not a string (TtsOptions is not enforced at run time); it is
\* truthy
NonStringText == "<number 42>"

TextOpts == {NoVal, "", "hi", NonStringText}
VoiceOpts == {NoVal, "Puck", "puck"}
LanguageOpts == {NoVal, "en-US", "en"}
PromptOpts == {NoVal, "say it"}
FileNameOpts == {NoVal, "hi"}

\* a file reference: a string (file name), a FileMetadata object, or absent
FUndef == [kind |-> "undefined", name |-> "", uri |-> "", mimeType |-> ""]
FEmpty == [kind |-> "string", name |-> "", uri |-> "", mimeType |-> ""]
FName == [kind |-> "string", name |-> "files/a", uri |-> "", mimeType |-> ""]
MetaOk == [kind |-> "object", name |-> "files/m", uri |-> "uri:m", mimeType |-> "audio/mpeg"]
MetaBad == [kind |-> "object", name |-> "files/m", uri |-> "", mimeType |-> "audio/mpeg"]

FileEntries == {FEmpty, FName, MetaOk, MetaBad}
FileOpts == {FUndef} \cup FileEntries

SeqsUpTo(S, n) == UNION { [1..k -> S] : k \in 0..n }

\* files: absent, or an array of at most MaxFiles entries
FilesOpts ==
    {[present |-> FALSE, list |-> <<>>]}
        \cup { [present |-> TRUE, list |-> l] : l \in SeqsUpTo(FileEntries, MaxFiles) }

TtsOptions ==
    [ text : TextOpts, voice : VoiceOpts, language : LanguageOpts,
      fileName : FileNameOpts, file : FileOpts, files : FilesOpts,
      prompt : PromptOpts ]

\* typeof text === 'string'
IsString(text) == text # NoVal /\ text # NonStringText

\* variant: only an absent text is rejected
TextMissing_OnlyAbsent(text) == text = NoVal

\* !text || typeof text !== 'string' || text.length < 1
TextMissing(text) == ~Truthy(text) \/ ~IsString(text) \/ Len(text) < 1

\* Boolean(f) of a file reference: objects are truthy, '' and undefined are not
FileTruthy(f) == f.kind = "object" \/ (f.kind = "string" /\ f.name # "")

\* variant: only options.file routes a request to synthesizeFromFile
HasFileInput_FileOnly(options) == FileTruthy(options.file)

\* variant: a request that has a text is taken as a text request
HasFileInput_TextFirst(options) ==
    (FileTruthy(options.file) \/ options.files.present) /\ ~Truthy(options.text)

\* options.file || options.files  (an empty array is truthy)
HasFileInput(options) == FileTruthy(options.file) \/ options.files.present

\* variant: a descriptor without a MIME type is accepted
MetadataIncomplete_NoMimeType(m) == m.name = "" \/ m.uri = ""

\* !m.name || !m.uri || !m.mimeType
MetadataIncomplete(m) == m.name = "" \/ m.uri = "" \/ m.mimeType = ""

RECURSIVE FilterBoolean(_)
FilterBoolean(l) ==
    IF l = <<>> THEN <<>>
    ELSE IF FileTruthy(Head(l)) THEN <<Head(l)>> \o FilterBoolean(Tail(l))
    ELSE FilterBoolean(Tail(l))

\* variant: the entries of files come before file
FileList_FilesFirst(options) == FilterBoolean(options.files.list \o <<options.file>>)

\* [file, ...(files || [])].filter(Boolean)
FileList(options) == FilterBoolean(<<options.file>> \o options.files.list)

(***************************************************************************)
(* Remote service outcomes.                                                 *)
(***************************************************************************)
\* response.candidates?.[0]?.content?.parts?.[0]?.inlineData?.data
AudioDatas == {NoVal, "", "====", "AQ==", "AwQ="}

\* Buffer.from(audioData, 'base64')
Base64Decode(audioData) ==
    CASE audioData = "AQ==" -> <<1>>
      [] audioData = "AwQ=" -> <<3, 4>>
      [] audioData = "====" -> <<>>
      [] OTHER -> <<>>

\* what genAI.files.get can resolve to
RemoteMetas ==
    { [kind |-> "object", name |-> "files/a", uri |-> "uri:a", mimeType |-> "image/png"],
      [kind |-> "object", name |-> "files/a", uri |-> "uri:a", mimeType |-> ""] }

(***************************************************************************)
(* Pure functions of the engine.                                            *)
(***************************************************************************)
\* mutant: the language candidate is not validated
resolveVoiceAndLanguage_NoLanguageCheck(options, config, idx) ==
    LET chosenVoice == Or(options.voice, Or(config.defaultVoice, getRandomVoice(idx)))
        chosenLanguage == Or(options.language, Or(config.defaultLanguage, "en-US"))
    IN  IF ~isValidVoice(chosenVoice)
        THEN InvalidVoice(chosenVoice)
        ELSE Resolved(chosenVoice, chosenLanguage)

\* variant: the configured defaults take precedence over the request
resolveVoiceAndLanguage_DefaultFirst(options, config, idx) ==
    LET chosenVoice == Or(config.defaultVoice, Or(options.voice, getRandomVoice(idx)))
        chosenLanguage == Or(config.defaultLanguage, Or(options.language, "en-US"))
    IN  IF ~isValidVoice(chosenVoice)
        THEN InvalidVoice(chosenVoice)
        ELSE IF ~isValidLanguage(chosenLanguage)
        THEN InvalidLanguage(chosenVoice, chosenLanguage)
        ELSE Resolved(chosenVoice, chosenLanguage)

\* variant: an unsupported voice or language is replaced by the suggestion
\* found for it
resolveVoiceAndLanguage_AutoCorrect(options, config, idx) ==
    LET givenVoice == Or(options.voice, Or(config.defaultVoice, getRandomVoice(idx)))
        givenLanguage == Or(options.language, Or(config.defaultLanguage, "en-US"))
        chosenVoice == IF isValidVoice(givenVoice) THEN givenVoice
                       ELSE Or(suggestVoice(givenVoice), givenVoice)
        chosenLanguage == IF isValidLanguage(givenLanguage) THEN givenLanguage
                          ELSE Or(suggestLanguage(givenLanguage), givenLanguage)
    IN  IF ~isValidVoice(chosenVoice)
        THEN InvalidVoice(chosenVoice)
        ELSE IF ~isValidLanguage(chosenLanguage)
        THEN InvalidLanguage(chosenVoice, chosenLanguage)
        ELSE Resolved(chosenVoice, chosenLanguage)

\* _resolveVoiceAndLanguage (lines 1274-1305)
resolveVoiceAndLanguage(options, config, idx) ==
    LET chosenVoice == Or(options.voice, Or(config.defaultVoice, getRandomVoice(idx)))
        chosenLanguage == Or(options.language, Or(config.defaultLanguage, "en-US"))
    IN  IF ~isValidVoice(chosenVoice)
        THEN InvalidVoice(chosenVoice)
        ELSE IF ~isValidLanguage(chosenLanguage)
        THEN InvalidLanguage(chosenVoice, chosenLanguage)
        ELSE Resolved(chosenVoice, chosenLanguage)

\* crypto.createHash('sha256')...digest('hex'): the digest is taken to be
\* injective on its input, so it is represented by the input it was fed
Sha256Hex(input) == <<"sha256", input>>

\* variant: the voice is left out of the key
getCacheKey_NoVoice(text, voice, language) == Sha256Hex(text \o language)

\* hash.update(text); hash.update(voice); hash.update(language)
getCacheKey(text, voice, language) == Sha256Hex(text \o voice \o language)

\* path.join(this.cacheDir, `${key}.raw`)
CachePath(key) == [dir |-> cacheDir, name |-> key, ext |-> "raw"]

\* variant: slice returns the whole string
SliceChars_Whole(chars, n) == chars

\* slice(0, n) of a string given by its characters
SliceChars(chars, n) == SubSeq(chars, 1, IF Len(chars) <= n THEN Len(chars) ELSE n)

\* String.prototype.slice(0, n)
Slice(s, n) == IF Len(s) <= n THEN s ELSE Join(SliceChars(Chars(s), n))

\* toLowerCase of one character
LowerChar(ch) ==
    CASE ch = "A" -> "a" [] ch = "B" -> "b" [] ch = "C" -> "c" [] ch = "D" -> "d" [] ch = "E" -> "e"
      [] ch = "F" -> "f" [] ch = "G" -> "g" [] ch = "H" -> "h" [] ch = "I" -> "i" [] ch = "J" -> "j"
      [] ch = "K" -> "k" [] ch = "L" -> "l" [] ch = "M" -> "m" [] ch = "N" -> "n" [] ch = "O" -> "o"
      [] ch = "P" -> "p" [] ch = "Q" -> "q" [] ch = "R" -> "r" [] ch = "S" -> "s" [] ch = "T" -> "t"
      [] ch = "U" -> "u" [] ch = "V" -> "v" [] ch = "W" -> "w" [] ch = "X" -> "x" [] ch = "Y" -> "y"
      [] ch = "Z" -> "z"
      [] OTHER -> ch

\* [a-z0-9]
AlnumChars ==
    {"a", "b", "c", "d", "e", "f", "g", "h", "i", "j", "k", "l", "m", "n", "o", "p", "q", "r", "s", "t", "u", "v", "w", "x", "y", "z",
     "0", "1", "2", "3", "4", "5", "6", "7", "8", "9"}

RECURSIVE ReplaceRuns(_, _)
\* .replace(/[^a-z0-9]+/g, '-'): each run of other characters becomes one '-'
\* (inRun: the character before chars was part of such a run)
ReplaceRuns(chars, inRun) ==
    IF chars = <<>> THEN <<>>
    ELSE IF Head(chars) \in AlnumChars THEN <<Head(chars)>> \o ReplaceRuns(Tail(chars), FALSE)
    ELSE IF inRun THEN ReplaceRuns(Tail(chars), TRUE)
    ELSE <<"-">> \o ReplaceRuns(Tail(chars), TRUE)

\* .replace(/^-|-$/g, ''): a leading and a trailing '-' are removed
TrimDashes(chars) ==
    LET front == IF chars # <<>> /\ Head(chars) = "-" THEN Tail(chars) ELSE chars
    IN  IF front # <<>> /\ front[Len(front)] = "-"
        THEN SubSeq(front, 1, Len(front) - 1)
        ELSE front

\* new Date().toISOString().replace(/[:.]/g, '-') has the 24 characters of
\* YYYY-MM-DDTHH-mm-ss-sssZ
TimestampLength == 24

\* hex digest .slice(0, 8)
HashLength == 8

MaxFileNameLength == 255

\* lines 1237-1241: `${base.slice(0, 20)}-${voice}`, lower-cased, with the two
\* replacements, cut to 50 characters
Sanitized(base, voice) ==
    LET raw == SliceChars(Chars(base), 20) \o <<"-">> \o Chars(ToLowerCase(voice))
        lower == [i \in 1..Len(raw) |-> LowerChar(raw[i])]
    IN  Join(SliceChars(TrimDashes(ReplaceRuns(lower, FALSE)), 50))

\* the base names that occur: options.fileName, options.text.slice(0, 40),
\* 'output'
BaseNames == {"hi", "output", LongFileName, LongTextHead, SymbolsFileName, VeryLongFileName}

\* Sanitized, computed once for every base name and every catalog voice
SanitizedOf ==
    [base \in BaseNames |->
        [voice \in {GEMINI_TTS_VOICES[i] : i \in 1..Len(GEMINI_TTS_VOICES)} |->
            Sanitized(base, voice)]]

\* createSafeFileName, lines 1234-1246: the name
\* `${sanitized.slice(0, 50)}-${hash}-${timestamp}.mp3` with its length; the
\* caller throws FILENAME_ERROR on a length of 0 or above 255
createSafeFileName(base, voice, timestamp) ==
    LET hash == <<"sha256/8", base>>
        stem == SanitizedOf[base][voice]
    IN  [name |-> <<stem, hash, timestamp>>, ext |-> "mp3",
         length |-> Len(stem) + 1 + HashLength + 1 + TimestampLength + 4]

\* path.join(this.outputDir, fileName)
FilePath(fileName) == [dir |-> outputDir, name |-> fileName.name, ext |-> fileName.ext]

\* variant: the pattern finds nothing to replace
TempRawPath_Unchanged(filePath) == filePath

\* filePath.replace(/\.mp3$/, '.raw')
TempRawPath(filePath) ==
    IF filePath.ext = "mp3" THEN [filePath EXCEPT !.ext = "raw"] ELSE filePath

\* options.fileName || options.text?.slice(0, 40) || 'output'
BaseName(options) ==
    Or(options.fileName,
       Or(IF options.text = NoVal THEN NoVal ELSE Slice(options.text, 40), "output"))

\* file contents: raw PCM as written by writeFile, or ffmpeg's mp3 of it
RawContent(bytes) == [fmt |-> "s16le", bytes |-> bytes]

Mp3Content(bytes) == [fmt |-> "mp3", bytes |-> bytes]

(***************************************************************************)
(* Requests made on the engine.                                             *)
(***************************************************************************)
NoFiles == [present |-> FALSE, list |-> <<>>]

TextRequests ==
    [ text : TextOpts, voice : VoiceOpts, language : LanguageOpts,
      fileName : FileNameOpts, file : {FUndef}, files : {NoFiles},
      prompt : {NoVal} ]

MediaRequests ==
    [ text : {NoVal, "hi"}, voice : {NoVal, "puck"}, language : {NoVal, "en"},
      fileName : {NoVal}, file : FileOpts, files : FilesOpts,
      prompt : PromptOpts ]

Requests == TextRequests \cup MediaRequests

Ops == {"synthesizeToBuffer", "synthesizeFromFile", "synthesizeToFile", "synthesizeToStream"}

(***************************************************************************)
(* State.                                                                   *)
(***************************************************************************)
VARIABLES
    config,   \* the TtsEngineConfig the engine was constructed with
    fs,       \* the filesystem: existing directories, and files with content
    now,      \* the last time read from the system clock
    faults,   \* the filesystem operations that have failed so far
    calls     \* the calls made on the engine, one record each

vars == <<config, fs, now, faults, calls>>

NoPath == [dir |-> "", name |-> <<>>, ext |-> ""]

\* the options of a call that are not on record
NoRequest ==
    [ text |-> NoVal, voice |-> NoVal, language |-> NoVal, fileName |-> NoVal,
      file |-> FUndef, files |-> NoFiles, prompt |-> NoVal ]

\* pc: the await the call is suspended at.  code and suggestion are those of
\* the error the call throws.  written: the number of write
\* calls the writeFile in progress has completed, -1 when none is in progress.
\* request: the options the call was made with, kept where the computation
\* of a call's voice, language and cache key from its options is examined.
\* files: in listFiles the local array of that name, in uploadFile and getFile
\* the descriptor about to be returned.
\* textCandidate, fileInput, voiceCandidate, languageCandidate, cause, fsFault,
\* received and trace are history: they record the request, the failed
\* filesystem operations, the descriptors the remote file store handed to the
\* call, and the order of the call's hook invocations, checks and external
\* calls.
IdleCall ==
    [ pc |-> "idle", op |-> NoVal, media |-> FALSE,
      text |-> NoVal, base |-> NoVal, prompt |-> NoVal,
      voice |-> NoVal, language |-> NoVal,
      textCandidate |-> NoVal, fileInput |-> FALSE,
      voiceCandidate |-> NoVal, languageCandidate |-> NoVal,
      queue |-> <<>>, contentParts |-> <<>>,
      buffer |-> <<>>, filePath |-> NoPath, tempRawPath |-> NoPath,
      outcome |-> "none", code |-> NoVal, suggestion |-> NoVal, cause |-> NoVal,
      fsFault |-> FALSE, written |-> -1, request |-> NoRequest,
      files |-> <<>>, received |-> <<>>, trace |-> <<>> ]

Forgotten == [IdleCall EXCEPT !.pc = "forgotten"]

Emit(rec, event) == [rec EXCEPT !.trace = Append(@, event)]

Count(trace, event) == Cardinality({i \in 1..Len(trace) : trace[i] = event})

\* this.hooks.onError?.(err)
OnError(rec) == Emit(rec, "onError")

\* mutant: the hook is not invoked
BeforeSynthesize_Skipped(rec) == rec

\* this.hooks.beforeSynthesize?.(options)
BeforeSynthesize(rec) == Emit(rec, "beforeSynthesize")

\* this.hooks.afterSynthesize?.({ buffer, voice, language })
AfterSynthesize(rec) == Emit(rec, "afterSynthesize")

\* the call completes: its promise resolves or rejects
Done(rec, outcome, code) ==
    [rec EXCEPT !.pc = "done", !.outcome = outcome, !.code = code,
                !.prompt = NoVal, !.queue = <<>>, !.contentParts = <<>>]

(***************************************************************************)
(* Control flow between synthesizeToBuffer / synthesizeFromFile and the     *)
(* method that called them.                                                 *)
(***************************************************************************)
\* an error leaves synthesizeToBuffer or synthesizeFromFile.  In
\* synthesizeToFile it is caught at line 1115 (onError, rethrow), and the
\* finally block finds tempRawPath undefined.
ThrowFromSynth(rec, code) ==
    IF rec.op = "synthesizeToFile"
    THEN Done(OnError(rec), "threw", code)
    ELSE Done(rec, "threw", code)

\* synthesizeToBuffer or synthesizeFromFile returns { buffer, voice, language }.
\* synthesizeToFile goes on to mkdir(outputDir); synthesizeToStream wraps the
\* buffer in Readable.from and returns.
ReturnFromSynth(rec) ==
    IF rec.op = "synthesizeToFile"
    THEN [rec EXCEPT !.pc = "mkdirOutput",
                     !.prompt = NoVal, !.queue = <<>>, !.contentParts = <<>>]
    ELSE Done(rec, "returned", NoVal)

\* variant: the catch blocks issue the remote call once more before giving up
CatchSynth_Retry(rec, cause) ==
    IF Count(rec.trace, "generateContent") < 2
    THEN [Emit(OnError([rec EXCEPT !.cause = cause]), "generateContent") EXCEPT
             !.pc = "generateContent"]
    ELSE ThrowFromSynth(OnError([rec EXCEPT !.cause = cause]),
                        IF rec.media THEN "SYNTH_FILE_ERROR" ELSE "SYNTH_ERROR")

\* the catch blocks at lines 1056 and 1203: onError, then a new error with
\* code SYNTH_FILE_ERROR or SYNTH_ERROR that wraps the caught one
CatchSynth(rec, cause) ==
    ThrowFromSynth(OnError([rec EXCEPT !.cause = cause]),
                   IF rec.media THEN "SYNTH_FILE_ERROR" ELSE "SYNTH_ERROR")

\* the catch block at line 1115 once tempRawPath is set: onError, rethrow;
\* the finally block then awaits unlink(tempRawPath)
CatchFinish(rec, code) ==
    [OnError(rec) EXCEPT !.pc = "cleanup", !.outcome = "threw", !.code = code]

\* issue genAI.models.generateContent
CallGenerateContent(rec) == [Emit(rec, "generateContent") EXCEPT !.pc = "generateContent"]

FilePart(fileMeta) ==
    [type |-> "file", uri |-> fileMeta.uri, mimeType |-> fileMeta.mimeType, text |-> ""]

TextPart(text) == [type |-> "text", uri |-> "", mimeType |-> "", text |-> text]

NumFileParts(parts) == Cardinality({i \in 1..Len(parts) : parts[i].type = "file"})

RECURSIVE ProcessFiles(_)

\* lines 1019-1022: the metadata check and contentParts.push of one entry
AddFile(rec, fileMeta) ==
    IF MetadataIncomplete(fileMeta)
    THEN ThrowFromSynth(rec, "FILE_METADATA_ERROR")
    ELSE ProcessFiles([rec EXCEPT !.contentParts = Append(@, FilePart(fileMeta)),
                                  !.queue = Tail(@)])

\* lines 1011-1041: the loop over fileList, up to the next await
ProcessFiles(rec) ==
    IF rec.queue # <<>>
    THEN IF Head(rec.queue).kind = "string"
         THEN [Emit(rec, "getFile") EXCEPT !.pc = "getFile"]
         ELSE AddFile(rec, Head(rec.queue))
    ELSE LET withPrompt ==
                 IF Truthy(rec.prompt)
                 THEN Append(rec.contentParts, TextPart(rec.prompt))
                 ELSE rec.contentParts
             withFallback ==
                 IF ~Truthy(rec.prompt) /\ NumFileParts(rec.contentParts) > 0
                 THEN Append(withPrompt, TextPart("Describe this file"))
                 ELSE withPrompt
         IN  CallGenerateContent([rec EXCEPT !.contentParts = withFallback])

\* variant: synthesizeFromFile does not validate the language
EnterFromFile_NoLanguageCheck(rec, options, cfg, idx) ==
    LET r1 == BeforeSynthesize(rec)
        res == resolveVoiceAndLanguage_NoLanguageCheck(options, cfg, idx)
        r2 == Emit([r1 EXCEPT !.media = TRUE], "resolveVoiceAndLanguage")
    IN  IF ~res.ok
        THEN ThrowFromSynth(OnError([r2 EXCEPT !.suggestion = res.suggestion]), res.code)
        ELSE ProcessFiles([r2 EXCEPT !.voice = res.voice, !.language = res.language,
                                     !.prompt = options.prompt,
                                     !.queue = FileList(options)])

\* synthesizeFromFile, lines 1004-1028
EnterFromFile(rec, options, cfg, idx) ==
    LET r1 == BeforeSynthesize(rec)
        res == resolveVoiceAndLanguage(options, cfg, idx)
        r2 == Emit([r1 EXCEPT !.media = TRUE], "resolveVoiceAndLanguage")
    IN  IF ~res.ok
        THEN ThrowFromSynth(OnError([r2 EXCEPT !.suggestion = res.suggestion]), res.code)
        ELSE ProcessFiles([r2 EXCEPT !.voice = res.voice, !.language = res.language,
                                     !.prompt = options.prompt,
                                     !.queue = FileList(options)])

\* mutant: the remote call is issued without consulting the cache
ConsultCache_Skipped(rec, cfg) == CallGenerateContent(rec)

\* variant: the cache is consulted whatever useCache says
ConsultCache_Always(rec, cfg) == [Emit(rec, "readFromCache") EXCEPT !.pc = "stat"]

\* lines 1153-1169: with caching on, readFromCache comes first (its first
\* await is stat); otherwise the remote call is issued at once
ConsultCache(rec, cfg) ==
    IF cfg.useCache
    THEN [Emit(rec, "readFromCache") EXCEPT !.pc = "stat"]
    ELSE CallGenerateContent(rec)

\* synthesizeToBuffer, lines 1139-1151
EnterToBuffer(rec, options, cfg, idx) ==
    IF HasFileInput(options)
    THEN EnterFromFile(rec, options, cfg, idx)
    ELSE LET r1 == BeforeSynthesize(rec)
             r2 == Emit(r1, "textCheck")
             res == resolveVoiceAndLanguage(options, cfg, idx)
             r3 == Emit(r2, "resolveVoiceAndLanguage")
             r4 == [r3 EXCEPT !.text = options.text, !.voice = res.voice,
                              !.language = res.language]
         IN  IF TextMissing(options.text)
             THEN ThrowFromSynth(OnError(r2), "NO_TEXT")
             ELSE IF ~res.ok
             THEN ThrowFromSynth(OnError([r3 EXCEPT !.suggestion = res.suggestion]), res.code)
             ELSE ConsultCache(r4, cfg)

\* the synchronous start of a public method, up to its first await
Enter(op, options, cfg, idx) ==
    LET voiceCandidate == Or(options.voice, Or(cfg.defaultVoice, getRandomVoice(idx)))
        languageCandidate == Or(options.language, Or(cfg.defaultLanguage, "en-US"))
        rec == [IdleCall EXCEPT
                   !.op = op,
                   !.base = IF op = "synthesizeToFile" THEN BaseName(options) ELSE NoVal,
                   !.textCandidate = options.text,
                   !.fileInput = (FileTruthy(options.file) \/ options.files.present),
                   !.voiceCandidate = voiceCandidate,
                   !.languageCandidate = languageCandidate]
    IN  CASE op = "synthesizeFromFile" -> EnterFromFile(rec, options, cfg, idx)
          [] op = "synthesizeToFile" ->
                IF HasFileInput(options)
                THEN EnterFromFile(rec, options, cfg, idx)
                ELSE EnterToBuffer(rec, options, cfg, idx)
          [] OTHER -> EnterToBuffer(rec, options, cfg, idx)

NeedsRandom(options, cfg) == ~Truthy(options.voice) /\ ~Truthy(cfg.defaultVoice)

(***************************************************************************)
(* Actions.                                                                 *)
(***************************************************************************)
\* writeFile(path, bytes) succeeded
WriteFile(files, path, content) ==
    [p \in DOMAIN files \cup {path} |-> IF p = path THEN content ELSE files[p]]

\* mutant: unlink reports success and leaves the file
Unlink_Noop(files, path) == files

\* unlink(path) succeeded
Unlink(files, path) == [p \in DOMAIN files \ {path} |-> files[p]]

\* the cache directory as earlier runs of the program can have left it:
\* empty, or holding the entry of one earlier synthesis
PriorCaches ==
    {<<>>} \cup
    { WriteFile(<<>>, CachePath(getCacheKey("hi", "Puck", "en-US")), RawContent(Base64Decode(a))) :
        a \in {a \in AudioDatas : Truthy(a)} }

\* new TtsEngine(config), lines 867-893
Init ==
    /\ config \in Configs
    /\ \E files \in PriorCaches :
         fs = [dirs |-> IF files = <<>> THEN {} ELSE {outputDir, cacheDir}, files |-> files]
    /\ now = 0
    /\ faults = 0
    /\ calls = [c \in Calls |-> IdleCall]

\* the engine of the sequential runs starts on an empty filesystem
InitSeq ==
    /\ config \in Configs
    /\ fs = [dirs |-> {}, files |-> <<>>]
    /\ now = 0
    /\ faults = 0
    /\ calls = [c \in Calls |-> IdleCall]

\* what is kept of a call once the next one starts: the text, voice and
\* language it synthesized, its result, and its remote calls and cache hits
Summary(rec) ==
    [rec EXCEPT !.trace = SelectSeq(@, LAMBDA e : e \in {"generateContent", "cacheHit"}),
                !.op = NoVal, !.code = NoVal, !.suggestion = NoVal, !.base = NoVal, !.filePath = NoPath, !.tempRawPath = NoPath,
                !.textCandidate = NoVal, !.fileInput = FALSE,
                !.voiceCandidate = NoVal, !.languageCandidate = NoVal,
                !.cause = NoVal]

Set(c, rec) == calls' = [calls EXCEPT ![c] = rec]

\* a caller invokes method op with the given options
Invoke(c, op, options) ==
    /\ \E idx \in (IF NeedsRandom(options, config) THEN RandomIdxs ELSE {1}) :
          calls' = [d \in Calls |->
                      IF d = c THEN Enter(op, options, config, idx)
                      ELSE IF d < c - 1 THEN Forgotten
                      ELSE IF d = c - 1 THEN Summary(calls[d])
                      ELSE calls[d]]
    /\ UNCHANGED <<config, fs, now, faults>>

\* the voice and the language of a request
VoiceAndLanguage(options) ==
    [NoRequest EXCEPT !.voice = options.voice, !.language = options.language]

\* one call of any public synthesize* method on the engine; of its options
\* the voice and the language are kept on record
Start(c) ==
    /\ c = 1
    /\ calls[c].pc = "idle"
    /\ \E op \in Ops, options \in Requests :
          \E idx \in (IF NeedsRandom(options, config) THEN RandomIdxs ELSE {1}) :
              Set(c, [Enter(op, options, config, idx) EXCEPT
                         !.request = VoiceAndLanguage(options)])
    /\ UNCHANGED <<config, fs, now, faults>>

SeqOps == {"synthesizeToBuffer", "synthesizeToStream"}

\* the text requests of these methods, which do not read options.fileName
SeqRequests == {r \in TextRequests : r.fileName = NoVal}

\* a text request, made once the call before it has completed; the records
\* of calls older than the previous one are dropped
StartSeq(c) ==
    /\ calls[c].pc = "idle"
    /\ \A d \in Calls : d < c => calls[d].pc \in {"done", "forgotten"}
    /\ \E op \in SeqOps, options \in SeqRequests : Invoke(c, op, options)

Exists(path) == path \in DOMAIN fs.files

\* what a failed writeFile can leave behind: nothing changed (the open
\* failed), or a file truncated to no bytes (a write failed)
FailedWrites(files, path) == {files, WriteFile(files, path, RawContent(<<>>))}

\* a filesystem operation fails although its target is in order
Fault == faults < MaxFaults /\ faults' = faults + 1

NoFault == faults' = faults

\* await this.getFile({ name: f }) settles (lines 960-976, 1015-1022)
GetFileReturns(c) ==
    /\ calls[c].pc = "getFile"
    /\ \/ \* genAI.files.get rejects: getFile's catch calls onError and rethrows
          Set(c, ThrowFromSynth(OnError([calls[c] EXCEPT !.cause = "REMOTE_ERROR"]), NoVal))
       \/ \E file \in RemoteMetas :
            IF MetadataIncomplete(file)
            THEN Set(c, ThrowFromSynth(OnError(calls[c]), "FILE_METADATA_ERROR"))
            ELSE Set(c, AddFile(calls[c], file))
    /\ UNCHANGED <<config, fs, now, faults>>

CacheKeyOf(rec) == getCacheKey(rec.text, rec.voice, rec.language)

\* variant: a failed cache read is thrown instead of being taken as a miss
CacheMiss_Throws(rec) == CatchSynth(Emit(rec, "cacheMiss"), "FS_ERROR")

\* readFromCache returned null: lines 1163-1169
CacheMiss(rec) == CallGenerateContent(Emit(rec, "cacheMiss"))

\* mutant: a cached entry is not used, the call synthesizes again
CacheHit_Ignored(rec, bytes) == CacheMiss(rec)

\* mutant: a call served from the cache writes the entry back
CacheHit_WrittenBack(rec, bytes) ==
    [Emit(Emit([rec EXCEPT !.buffer = bytes], "cacheHit"), "writeToCache") EXCEPT !.pc = "mkdirCache"]

\* readFromCache returned the entry's bytes: lines 1157-1160 (a Buffer is
\* truthy whatever its length)
CacheHit(rec, bytes) == ReturnFromSynth(Emit([rec EXCEPT !.buffer = bytes], "cacheHit"))

\* variant: readFromCache prepares the cache directory before it looks
Stat_CreatesDir(c) ==
    LET cachePath == CachePath(CacheKeyOf(calls[c])) IN
    /\ calls[c].pc = "stat"
    /\ NoFault
    /\ fs' = [fs EXCEPT !.dirs = @ \cup {cacheDir}]
    /\ IF Exists(cachePath)
       THEN Set(c, [calls[c] EXCEPT !.pc = "readFile"])
       ELSE Set(c, CacheMiss(calls[c]))
    /\ UNCHANGED <<config, now>>

\* await stat(cachePath) settles (line 1260)
Stat(c) ==
    LET cachePath == CachePath(CacheKeyOf(calls[c])) IN
    /\ calls[c].pc = "stat"
    /\ \/ /\ Exists(cachePath) /\ NoFault
          /\ Set(c, [calls[c] EXCEPT !.pc = "readFile"])
       \/ /\ ~Exists(cachePath) /\ NoFault
          /\ Set(c, CacheMiss(calls[c]))
       \/ /\ Exists(cachePath) /\ Fault
          /\ Set(c, CacheMiss([calls[c] EXCEPT !.fsFault = TRUE]))
    /\ UNCHANGED <<config, fs, now>>

\* await readFile(cachePath) settles (lines 1261, 1157-1160)
ReadFile(c) ==
    LET cachePath == CachePath(CacheKeyOf(calls[c])) IN
    /\ calls[c].pc = "readFile"
    /\ \/ /\ Exists(cachePath) /\ NoFault
          /\ Set(c, CacheHit(calls[c], fs.files[cachePath].bytes))
       \/ /\ ~Exists(cachePath) /\ NoFault
          /\ Set(c, CacheMiss(calls[c]))
       \/ /\ Exists(cachePath) /\ Fault
          /\ Set(c, CacheMiss([calls[c] EXCEPT !.fsFault = TRUE]))
    /\ UNCHANGED <<config, fs, now>>

\* await genAI.models.generateContent settles (lines 1030-1066, 1169-1208)
GenerateContentReturns(c) ==
    /\ calls[c].pc = "generateContent"
    /\ \/ Set(c, CatchSynth(calls[c], "REMOTE_ERROR"))
       \/ \E audioData \in AudioDatas :
            IF Truthy(audioData)
            THEN LET r1 == Emit([calls[c] EXCEPT !.buffer = Base64Decode(audioData)], "audioData")
                     r2 == AfterSynthesize(r1)
                 IN  IF ~calls[c].media /\ config.useCache
                     THEN Set(c, [Emit(r2, "writeToCache") EXCEPT !.pc = "mkdirCache"])
                     ELSE Set(c, ReturnFromSynth(r2))
            ELSE Set(c, CatchSynth(OnError(Emit(calls[c], "noAudioData")), "NO_AUDIO"))
    /\ UNCHANGED <<config, fs, now, faults>>

\* await mkdir(this.cacheDir, { recursive: true }) settles (line 1269)
MkdirCache(c) ==
    /\ calls[c].pc = "mkdirCache"
    /\ \/ /\ NoFault
          /\ fs' = [fs EXCEPT !.dirs = @ \cup {cacheDir}]
          /\ Set(c, [calls[c] EXCEPT !.pc = "writeFileCache"])
       \/ /\ Fault
          /\ fs' = fs
          /\ Set(c, CatchSynth([calls[c] EXCEPT !.fsFault = TRUE], "FS_ERROR"))
    /\ UNCHANGED <<config, now>>

\* the file a pending writeFile of the call writes
WritePath(rec) ==
    CASE rec.pc = "writeFileCache" -> CachePath(CacheKeyOf(rec))
      [] rec.pc = "writeRaw" -> rec.tempRawPath
      [] OTHER -> rec.filePath

\* a writeFile of the call has resolved: writeToCache returns and
\* synthesizeToBuffer returns the buffer (1194-1197), the transient file is
\* written (1094), or the raw bytes are saved at the final path (1112-1114)
AfterWrite(rec) ==
    CASE rec.pc = "writeFileCache" -> ReturnFromSynth(Emit(rec, "cacheWritten"))
      [] rec.pc = "writeRaw" -> [Emit(rec, "rawWritten") EXCEPT !.pc = "checkFFmpeg"]
      [] OTHER -> [Emit(rec, "rawSaved") EXCEPT !.pc = "cleanup", !.outcome = "returned"]

\* variant: writeToCache resolves at once and leaves the writing of the entry
\* to the end of the whole call
WriteFileCache_Deferred(c) ==
    /\ calls[c].pc = "writeFileCache"
    /\ NoFault
    /\ fs' = fs
    /\ Set(c, AfterWrite(calls[c]))
    /\ UNCHANGED <<config, now>>

\* await writeFile(cachePath, buffer) settles (lines 1271, 1194-1197)
WriteFileCache(c) ==
    LET cachePath == CachePath(CacheKeyOf(calls[c])) IN
    /\ calls[c].pc = "writeFileCache"
    /\ \/ /\ NoFault
          /\ fs' = [fs EXCEPT !.files = WriteFile(@, cachePath, RawContent(calls[c].buffer))]
          /\ Set(c, AfterWrite(calls[c]))
       \/ /\ Fault
          /\ \E files \in FailedWrites(fs.files, cachePath) : fs' = [fs EXCEPT !.files = files]
          /\ Set(c, CatchSynth([calls[c] EXCEPT !.fsFault = TRUE], "FS_ERROR"))
    /\ UNCHANGED <<config, now>>

\* await mkdir(this.outputDir, { recursive: true }) settles (lines 1086-1093)
MkdirOutput(c) ==
    /\ calls[c].pc = "mkdirOutput"
    /\ \/ \E timestamp \in now..MaxTime :
            LET fileName == createSafeFileName(calls[c].base, calls[c].voice, timestamp)
                filePath == FilePath(fileName)
            IN  /\ NoFault
                /\ now' = timestamp
                /\ fs' = [fs EXCEPT !.dirs = @ \cup {outputDir}]
                /\ IF fileName.length = 0 \/ fileName.length > MaxFileNameLength
                   THEN \* FILENAME_ERROR, caught at line 1115; tempRawPath is undefined
                        Set(c, Done(OnError(calls[c]), "threw", "FILENAME_ERROR"))
                   ELSE Set(c, [calls[c] EXCEPT !.filePath = filePath,
                                                !.tempRawPath = TempRawPath(filePath),
                                                !.pc = "writeRaw"])
       \/ \* mkdir rejects: caught at line 1115, tempRawPath is still undefined
          /\ Fault
          /\ UNCHANGED <<fs, now>>
          /\ Set(c, Done(OnError([calls[c] EXCEPT !.fsFault = TRUE]), "threw", NoVal))
    /\ UNCHANGED config

\* await writeFile(tempRawPath, bufferResult.buffer) settles (line 1093)
WriteRaw(c) ==
    LET rec == calls[c] IN
    /\ rec.pc = "writeRaw"
    /\ \/ /\ NoFault
          /\ fs' = [fs EXCEPT !.files = WriteFile(@, rec.tempRawPath, RawContent(rec.buffer))]
          /\ Set(c, AfterWrite(rec))
       \/ /\ Fault
          /\ \E files \in FailedWrites(fs.files, rec.tempRawPath) :
                fs' = [fs EXCEPT !.files = files]
          /\ Set(c, CatchFinish([rec EXCEPT !.fsFault = TRUE], NoVal))
    /\ UNCHANGED <<config, now>>

\* new TtsEngineError('ffmpeg is required ...', 'NO_FFMPEG', suggestion)
NoFFmpegError ==
    [code |-> "NO_FFMPEG", suggestion |-> "Install ffmpeg and ensure it is in your PATH."]

\* variant: a failed probe is passed over and the raw bytes are saved
CheckFFmpeg_Lenient(c) ==
    /\ calls[c].pc = "checkFFmpeg"
    /\ \/ Set(c, [calls[c] EXCEPT !.pc = "ffmpeg"])
       \/ Set(c, [Emit(calls[c], "ffmpegMissing") EXCEPT !.pc = "fallbackWrite"])
    /\ UNCHANGED <<config, fs, now, faults>>

\* await checkFFmpeg() settles (lines 749-756, 1094-1104)
CheckFFmpeg(c) ==
    /\ calls[c].pc = "checkFFmpeg"
    /\ \/ Set(c, [calls[c] EXCEPT !.pc = "ffmpeg"])
       \/ Set(c, CatchFinish(OnError([Emit(calls[c], "ffmpegMissing") EXCEPT
                                         !.suggestion = NoFFmpegError.suggestion]),
                             NoFFmpegError.code))
    /\ UNCHANGED <<config, fs, now, faults>>

\* await execAsync(`ffmpeg -y ... -i "${tempRawPath}" "${filePath}"`) settles
\* (lines 1106, 1108-1109)
Ffmpeg(c) ==
    LET rec == calls[c] IN
    /\ rec.pc = "ffmpeg"
    /\ \/ /\ Exists(rec.tempRawPath)
          /\ fs' = [fs EXCEPT !.files =
                       WriteFile(@, rec.filePath, Mp3Content(fs.files[rec.tempRawPath].bytes))]
          /\ Set(c, [Emit(rec, "converted") EXCEPT !.pc = "unlinkRaw"])
       \/ \* ffmpeg exits with an error, with or without a started output file
          /\ \E files \in {fs.files, WriteFile(fs.files, rec.filePath, Mp3Content(<<>>))} :
                fs' = [fs EXCEPT !.files = files]
          /\ Set(c, [Emit(rec, "conversionFailed") EXCEPT !.pc = "fallbackWrite"])
    /\ UNCHANGED <<config, now, faults>>

\* await unlink(tempRawPath) inside the inner try settles (lines 1107-1114)
UnlinkRaw(c) ==
    LET rec == calls[c] IN
    /\ rec.pc = "unlinkRaw"
    /\ \/ /\ Exists(rec.tempRawPath) /\ NoFault
          /\ fs' = [fs EXCEPT !.files = Unlink(@, rec.tempRawPath)]
          /\ Set(c, [rec EXCEPT !.pc = "cleanup", !.outcome = "returned"])
       \/ \* unlink rejects although the file is there: the inner catch takes over
          /\ Exists(rec.tempRawPath) /\ Fault
          /\ fs' = fs
          /\ Set(c, [Emit(rec, "unlinkFailed") EXCEPT !.pc = "fallbackWrite"])
       \/ \* ENOENT
          /\ ~Exists(rec.tempRawPath) /\ NoFault
          /\ fs' = fs
          /\ Set(c, [Emit(rec, "unlinkFailed") EXCEPT !.pc = "fallbackWrite"])
    /\ UNCHANGED <<config, now>>

\* variant: the inner catch logs the failure and writes nothing
FallbackWrite_Skipped(c) ==
    LET rec == calls[c] IN
    /\ rec.pc = "fallbackWrite"
    /\ Set(c, [Emit(rec, "rawSaved") EXCEPT !.pc = "cleanup", !.outcome = "returned"])
    /\ UNCHANGED <<config, fs, now, faults>>

\* await writeFile(filePath, bufferResult.buffer) in the inner catch settles
\* (lines 1110-1114)
FallbackWrite(c) ==
    LET rec == calls[c] IN
    /\ rec.pc = "fallbackWrite"
    /\ \/ /\ NoFault
          /\ fs' = [fs EXCEPT !.files = WriteFile(@, rec.filePath, RawContent(rec.buffer))]
          /\ Set(c, AfterWrite(rec))
       \/ /\ Fault
          /\ \E files \in FailedWrites(fs.files, rec.filePath) :
                fs' = [fs EXCEPT !.files = files]
          /\ Set(c, CatchFinish([rec EXCEPT !.fsFault = TRUE], NoVal))
    /\ UNCHANGED <<config, now>>

\* variant: the unlink of the finally block never settles when the transient
\* file is already gone
Cleanup_AbsentNeverSettles(c) ==
    LET rec == calls[c] IN
    /\ rec.pc = "cleanup"
    /\ Exists(rec.tempRawPath)
    /\ \/ /\ NoFault
          /\ fs' = [fs EXCEPT !.files = Unlink(@, rec.tempRawPath)]
          /\ Set(c, Done(Emit(rec, "cleanupUnlinked"), rec.outcome, rec.code))
       \/ /\ Fault
          /\ fs' = fs
          /\ Set(c, Done(Emit(rec, "cleanupFailed"), rec.outcome, rec.code))
    /\ UNCHANGED <<config, now>>

\* the finally block: await unlink(tempRawPath) settles, its error ignored
\* (lines 1119-1127); the call then returns or rethrows
Cleanup(c) ==
    LET rec == calls[c] IN
    /\ rec.pc = "cleanup"
    /\ \/ /\ Exists(rec.tempRawPath) /\ NoFault
          /\ fs' = [fs EXCEPT !.files = Unlink(@, rec.tempRawPath)]
          /\ Set(c, Done(Emit(rec, "cleanupUnlinked"), rec.outcome, rec.code))
       \/ /\ Exists(rec.tempRawPath) /\ Fault
          /\ fs' = fs
          /\ Set(c, Done(Emit(rec, "cleanupFailed"), rec.outcome, rec.code))
       \/ /\ ~Exists(rec.tempRawPath) /\ NoFault
          /\ fs' = fs
          /\ Set(c, Done(Emit(rec, "cleanupAbsent"), rec.outcome, rec.code))
    /\ UNCHANGED <<config, now>>

Step(c) ==
    \/ GetFileReturns(c)
    \/ Stat(c)
    \/ ReadFile(c)
    \/ GenerateContentReturns(c)
    \/ MkdirCache(c)
    \/ WriteFileCache(c)
    \/ MkdirOutput(c)
    \/ WriteRaw(c)
    \/ CheckFFmpeg(c)
    \/ Ffmpeg(c)
    \/ UnlinkRaw(c)
    \/ FallbackWrite(c)
    \/ Cleanup(c)

Next == \E c \in Calls : Start(c) \/ Step(c)

Spec == Init /\ [][Next]_vars

\* the awaits a synthesizeToBuffer or synthesizeToStream call of a text request
\* can be pending at
StepSeq(c) ==
    \/ Stat(c)
    \/ ReadFile(c)
    \/ GenerateContentReturns(c)
    \/ MkdirCache(c)
    \/ WriteFileCache(c)

NextSeq == \E c \in Calls : StartSeq(c) \/ StepSeq(c)

SpecSeq == InitSeq /\ [][NextSeq]_vars

(***************************************************************************)
(* Concurrent calls.  fs/promises.writeFile opens the file with flag 'w'    *)
(* (create or truncate) and then writes the buffer with one awaited write  *)
(* call per chunk, each at the position its own file handle has reached.   *)
(* When calls overlap these steps interleave with the steps of the other   *)
(* calls, so they are separate actions here; an element of a buffer stands *)
(* for one chunk.  With one call at a time nothing runs in between, and    *)
(* WriteFileCache, WriteRaw and FallbackWrite take them as one step.       *)
(***************************************************************************)
WritePcs == {"writeFileCache", "writeRaw", "fallbackWrite"}

\* the bytes of a file after a write of chunk at offset off (a gap is read
\* back as zero bytes)
PutAt(bytes, off, chunk) ==
    [i \in 1..(IF Len(bytes) > off THEN Len(bytes) ELSE off + 1) |->
        IF i = off + 1 THEN chunk
        ELSE IF i <= Len(bytes) THEN bytes[i]
        ELSE 0]

\* writeFile: open(path, 'w') resolves; a writeFile of no bytes is complete
WriteOpen(c) ==
    LET rec == calls[c] IN
    /\ rec.pc \in WritePcs /\ rec.written = -1
    /\ fs' = [fs EXCEPT !.files = WriteFile(@, WritePath(rec), RawContent(<<>>))]
    /\ IF rec.buffer = <<>>
       THEN Set(c, AfterWrite(rec))
       ELSE Set(c, [rec EXCEPT !.written = 0])
    /\ UNCHANGED <<config, now, faults>>

\* writeFile: one write call resolves; after the last one the handle is
\* closed and writeFile resolves.  A file unlinked meanwhile stays unlinked.
WriteChunk(c) ==
    LET rec == calls[c]
        path == WritePath(rec)
        off == rec.written
    IN  /\ rec.pc \in WritePcs /\ off >= 0 /\ off < Len(rec.buffer)
        /\ IF Exists(path)
           THEN fs' = [fs EXCEPT !.files[path].bytes = PutAt(@, off, rec.buffer[off + 1])]
           ELSE fs' = fs
        /\ IF off + 1 = Len(rec.buffer)
           THEN Set(c, AfterWrite([rec EXCEPT !.written = -1]))
           ELSE Set(c, [rec EXCEPT !.written = off + 1])
        /\ UNCHANGED <<config, now, faults>>

ConcOps == {"synthesizeToBuffer", "synthesizeToFile"}

\* the overlapping calls make the same request
ConcRequests ==
    [ text : {"hi"}, voice : {"Puck"}, language : {NoVal},
      fileName : {NoVal}, file : {FUndef}, files : {NoFiles}, prompt : {NoVal} ]

\* a caller invokes a method while earlier calls may still be pending
StartConc(c) ==
    /\ calls[c].pc = "idle"
    /\ \A d \in Calls : d < c => calls[d].pc # "idle"
    /\ \E op \in ConcOps, options \in ConcRequests :
          Set(c, Enter(op, options, config, 1))
    /\ UNCHANGED <<config, fs, now, faults>>

StepConc(c) ==
    \/ Stat(c)
    \/ ReadFile(c)
    \/ GenerateContentReturns(c)
    \/ MkdirCache(c)
    \/ MkdirOutput(c)
    \/ WriteOpen(c)
    \/ WriteChunk(c)
    \/ CheckFFmpeg(c)
    \/ Ffmpeg(c)
    \/ UnlinkRaw(c)
    \/ Cleanup(c)

NextConc == \E c \in Calls : StartConc(c) \/ StepConc(c)

SpecConc == InitSeq /\ [][NextConc]_vars

(***************************************************************************)
(* The synchronous part of a call, over the whole catalog: what a call has  *)
(* computed from its options (voice, language, cache key) when it reaches   *)
(* its first await or throws.                                               *)
(***************************************************************************)
VoiceNames == {GEMINI_TTS_VOICES[i] : i \in 1..Len(GEMINI_TTS_VOICES)}

LanguageCodes == {GEMINI_TTS_LANGUAGES[i] : i \in 1..Len(GEMINI_TTS_LANGUAGES)}

\* texts, some of which end in or consist of catalog names
ResolveTexts == {"hi", "hiPuck", "hiPucken-US"}

ResolveRequests ==
    [ text : ResolveTexts,
      voice : {NoVal, "", "puck", "Al", "nova"} \cup VoiceNames,
      language : {NoVal, "", "en", "en-us", "zz"} \cup LanguageCodes,
      fileName : {NoVal}, file : {FUndef}, files : {NoFiles}, prompt : {NoVal} ]

ResolveOps == {"synthesizeToBuffer", "synthesizeFromFile"}

\* a caller invokes op; the call runs up to its first await
StartResolve(c) ==
    /\ c = 1
    /\ calls[c].pc = "idle"
    /\ \E op \in ResolveOps, options \in ResolveRequests :
          \E idx \in (IF NeedsRandom(options, config) THEN RandomIdxs ELSE {1}) :
              Set(c, [Enter(op, options, config, idx) EXCEPT !.request = options])
    /\ UNCHANGED <<config, fs, now, faults>>

NextResolve == \E c \in Calls : StartResolve(c)

SpecResolve == InitSeq /\ [][NextResolve]_vars

(***************************************************************************)
(* Media requests: one call of synthesizeFromFile, made directly or through *)
(* synthesizeToBuffer or synthesizeToStream, with the request on record so  *)
(* that the payload it builds can be compared with its file and files.      *)
(***************************************************************************)
MediaOps == {"synthesizeFromFile", "synthesizeToBuffer", "synthesizeToStream"}

\* a caller invokes op with a request that synthesizeFromFile processes
StartMedia(c) ==
    /\ c = 1
    /\ calls[c].pc = "idle"
    /\ \E op \in MediaOps, options \in MediaRequests :
          /\ op = "synthesizeFromFile" \/ FileTruthy(options.file) \/ options.files.present
          /\ \E idx \in (IF NeedsRandom(options, config) THEN RandomIdxs ELSE {1}) :
                Set(c, [Enter(op, options, config, idx) EXCEPT !.request = options])
    /\ UNCHANGED <<config, fs, now, faults>>

StepMedia(c) ==
    \/ GetFileReturns(c)
    \/ GenerateContentReturns(c)

NextMedia == \E c \in Calls : StartMedia(c) \/ StepMedia(c)

SpecMedia == InitSeq /\ [][NextMedia]_vars

(***************************************************************************)
(* The operations on the remote file store: uploadFile, listFiles, getFile  *)
(* and deleteFile called on their own (lines 902-993).                      *)
(***************************************************************************)
FileOps == {"uploadFile", "listFiles", "getFile", "deleteFile"}

\* what genAI.files.upload, list and get can hand back: a File whose name,
\* uri and mimeType are each set or missing
RemoteFiles ==
    [ kind : {"object"}, name : {"", "files/a"}, uri : {"", "uri:a"},
      mimeType : {"", "image/png"} ]

\* the await each operation starts with
FirstAwait(op) ==
    CASE op = "uploadFile" -> "filesUpload"
      [] op = "listFiles" -> "filesList"
      [] op = "getFile" -> "filesGet"
      [] OTHER -> "filesDelete"

\* a caller invokes one of the four operations
StartFiles(c) ==
    /\ c = 1
    /\ calls[c].pc = "idle"
    /\ \E op \in FileOps :
          Set(c, [Emit(IdleCall, FirstAwait(op)) EXCEPT !.op = op, !.pc = FirstAwait(op)])
    /\ UNCHANGED <<config, fs, now, faults>>

\* the catch blocks at 919-923, 947-951, 971-975 and 988-992: onError, then
\* the caught error is rethrown as it is
CatchFileOp(rec, code) == Done(OnError(rec), "threw", code)

\* the remote call of the operation rejects
RemoteRejects(rec) == CatchFileOp([rec EXCEPT !.cause = "REMOTE_ERROR"], NoVal)

\* lines 909-918 and 962-970: the metadata check of the one descriptor
CheckOne(rec, file) ==
    LET r1 == [rec EXCEPT !.received = Append(@, file)] IN
    IF MetadataIncomplete(file)
    THEN CatchFileOp(r1, "FILE_METADATA_ERROR")
    ELSE Done([r1 EXCEPT !.files = <<file>>], "returned", NoVal)

\* await this.genAI.files.upload(...) settles (lines 909-923)
FilesUpload(c) ==
    /\ calls[c].pc = "filesUpload"
    /\ \/ Set(c, RemoteRejects(calls[c]))
       \/ \E uploaded \in RemoteFiles : Set(c, CheckOne(calls[c], uploaded))
    /\ UNCHANGED <<config, fs, now, faults>>

\* await this.genAI.files.get({ name }) settles (lines 962-975)
FilesGet(c) ==
    /\ calls[c].pc = "filesGet"
    /\ \/ Set(c, RemoteRejects(calls[c]))
       \/ \E file \in RemoteFiles : Set(c, CheckOne(calls[c], file))
    /\ UNCHANGED <<config, fs, now, faults>>

\* await this.genAI.files.list(...) settles (lines 934-935); queue holds what
\* the pager is still to yield
FilesList(c) ==
    /\ calls[c].pc = "filesList"
    /\ \/ Set(c, RemoteRejects(calls[c]))
       \/ \E listResponse \in SeqsUpTo(RemoteFiles, MaxListed) :
             Set(c, [calls[c] EXCEPT !.pc = "filesIterate", !.queue = listResponse])
    /\ UNCHANGED <<config, fs, now, faults>>

\* one turn of for await (const file of listResponse) (lines 936-946): the
\* pager is exhausted, fails to fetch, or yields the next descriptor
FilesListNext(c) ==
    LET rec == calls[c] IN
    /\ rec.pc = "filesIterate"
    /\ IF rec.queue = <<>>
       THEN Set(c, Done(rec, "returned", NoVal))
       ELSE \/ Set(c, RemoteRejects(rec))
            \/ LET file == Head(rec.queue)
                   r1 == [rec EXCEPT !.received = Append(@, file), !.queue = Tail(@)]
               IN  IF MetadataIncomplete(file)
                   THEN Set(c, CatchFileOp(r1, "FILE_METADATA_ERROR"))
                   ELSE Set(c, [r1 EXCEPT !.files = Append(@, file)])
    /\ UNCHANGED <<config, fs, now, faults>>

\* await this.genAI.files.delete({ name }) settles (lines 985-992)
FilesDelete(c) ==
    /\ calls[c].pc = "filesDelete"
    /\ \/ Set(c, RemoteRejects(calls[c]))
       \/ Set(c, Done(calls[c], "returned", NoVal))
    /\ UNCHANGED <<config, fs, now, faults>>

StepFiles(c) ==
    \/ FilesUpload(c)
    \/ FilesGet(c)
    \/ FilesList(c)
    \/ FilesListNext(c)
    \/ FilesDelete(c)

NextFiles == \E c \in Calls : StartFiles(c) \/ StepFiles(c)

SpecFiles == InitSeq /\ [][NextFiles]_vars

(***************************************************************************)
(* Construction: new TtsEngine(configOrApiKey), lines 867-893.  In the      *)
(* behaviours of SpecConstruct the variable config holds the outcome of the *)
(* constructor call together with the argument and the environment it saw.  *)
(***************************************************************************)
ApiKeyOpts == {NoVal, "", "key-1"}

\* process.env.GEMINI_API_KEY
EnvOpts == {NoVal, "", "env-key"}

\* a TtsEngineConfig object; kind tells what typeof configOrApiKey gives
ConfigObjects ==
    [ kind : {"object"}, apiKey : ApiKeyOpts, useCache : BOOLEAN,
      defaultVoice : {NoVal, "Kore"}, defaultLanguage : {NoVal},
      outputDir : {NoVal, "out"}, cacheDir : {NoVal, "tmp/cache"} ]

\* {} : a config object with nothing set
EmptyConfig ==
    [ kind |-> "object", apiKey |-> NoVal, useCache |-> FALSE,
      defaultVoice |-> NoVal, defaultLanguage |-> NoVal,
      outputDir |-> NoVal, cacheDir |-> NoVal ]

\* { apiKey: key }
OnlyApiKey(key) == [EmptyConfig EXCEPT !.apiKey = key]

\* a bare string; apiKey holds the string
BareString(key) == [OnlyApiKey(key) EXCEPT !.kind = "string"]

ConstructorArgs ==
    {[EmptyConfig EXCEPT !.kind = "undefined"]}
        \cup {BareString(key) : key \in ApiKeyOpts \ {NoVal}}
        \cup ConfigObjects

\* getEnv(key): process.env[key] || fallback, with no fallback given
getEnv(env) == Or(env, NoVal)

NotConstructed ==
    [ code |-> NoVal, apiKey |-> NoVal, useCache |-> FALSE,
      defaultVoice |-> NoVal, defaultLanguage |-> NoVal,
      outputDir |-> NoVal, cacheDir |-> NoVal ]

\* variant: a bare string is taken as the key as it is, without the
\* environment as fallback
constructor_BareStringOnly(configOrApiKey, env) ==
    LET cfg == IF configOrApiKey.kind = "string" THEN OnlyApiKey(configOrApiKey.apiKey)
               ELSE IF configOrApiKey.kind = "object" THEN configOrApiKey
               ELSE EmptyConfig
        apiKey == IF configOrApiKey.kind = "string" THEN cfg.apiKey
                  ELSE Or(cfg.apiKey, getEnv(env))
        dir == Or(cfg.outputDir, DEFAULT_OUTPUT_DIR)
    IN  IF ~Truthy(apiKey)
        THEN [NotConstructed EXCEPT !.code = "NO_API_KEY"]
        ELSE [ code |-> NoVal, apiKey |-> apiKey, useCache |-> cfg.useCache,
               defaultVoice |-> cfg.defaultVoice, defaultLanguage |-> cfg.defaultLanguage,
               outputDir |-> dir, cacheDir |-> Or(cfg.cacheDir, dir \o "/cache") ]

\* the constructor: the fields of the engine it builds, or the code of the
\* error it throws
constructor(configOrApiKey, env) ==
    LET cfg == IF configOrApiKey.kind = "string" THEN OnlyApiKey(configOrApiKey.apiKey)
               ELSE IF configOrApiKey.kind = "object" THEN configOrApiKey
               ELSE EmptyConfig
        apiKey == Or(cfg.apiKey, getEnv(env))
        dir == Or(cfg.outputDir, DEFAULT_OUTPUT_DIR)
    IN  IF ~Truthy(apiKey)
        THEN [NotConstructed EXCEPT !.code = "NO_API_KEY"]
        ELSE [ code |-> NoVal, apiKey |-> apiKey, useCache |-> cfg.useCache,
               defaultVoice |-> cfg.defaultVoice, defaultLanguage |-> cfg.defaultLanguage,
               outputDir |-> dir, cacheDir |-> Or(cfg.cacheDir, dir \o "/cache") ]

\* before new TtsEngine(...) has run
InitConstruct ==
    /\ config = [state |-> "none", engine |-> NotConstructed,
                 configOrApiKey |-> EmptyConfig, env |-> NoVal]
    /\ fs = [dirs |-> {}, files |-> <<>>]
    /\ now = 0
    /\ faults = 0
    /\ calls = [c \in Calls |-> IdleCall]

\* new TtsEngine(configOrApiKey) runs: it returns an engine or throws
Construct ==
    /\ config.state = "none"
    /\ \E configOrApiKey \in ConstructorArgs, env \in EnvOpts :
          LET built == constructor(configOrApiKey, env) IN
          config' = [state |-> IF built.code = NoVal THEN "constructed" ELSE "threw",
                     engine |-> built,
                     configOrApiKey |-> configOrApiKey, env |-> env]
    /\ UNCHANGED <<fs, now, faults, calls>>

\* a caller invokes a method on the engine the constructor returned
StartConstructed(c) ==
    /\ config.state = "constructed"
    /\ c = 1
    /\ calls[c].pc = "idle"
    /\ \E op \in ConcOps, options \in ConcRequests :
          Set(c, Enter(op, options, config.engine, 1))
    /\ UNCHANGED <<config, fs, now, faults>>

NextConstruct == Construct \/ \E c \in Calls : StartConstructed(c)

SpecConstruct == InitConstruct /\ [][NextConstruct]_vars

(***************************************************************************)
(* Properties.                                                              *)
(***************************************************************************)
Has(rec, event) == \E i \in 1..Len(rec.trace) : rec.trace[i] = event

\* every occurrence of event a in the trace comes before every occurrence of b
Precedes(rec, a, b) ==
    \A i, j \in 1..Len(rec.trace) : rec.trace[i] = a /\ rec.trace[j] = b => i < j

Completed(c) == calls[c].pc = "done"

Threw(c) == Completed(c) /\ calls[c].outcome = "threw"

Returned(c) == Completed(c) /\ calls[c].outcome = "returned"

RemoteCalls(rec) == Count(rec.trace, "generateContent")

NoRemoteCall(rec) == ~Has(rec, "generateContent") /\ ~Has(rec, "getFile")

\* call c - 1 and call c are two text synthesis calls made one after the other
\* with the same text, resolved voice and resolved language, caching is on, no
\* filesystem operation of either failed, and the first one returned
SamePairCached(c) ==
    /\ c - 1 \in Calls
    /\ config.useCache
    /\ Completed(c) /\ Returned(c - 1)
    /\ calls[c].text # NoVal
    /\ calls[c].text = calls[c - 1].text
    /\ calls[c].voice = calls[c - 1].voice
    /\ calls[c].language = calls[c - 1].language
    /\ ~calls[c].fsFault /\ ~calls[c - 1].fsFault

\* C1: with caching on and no filesystem failure, of two sequential text
\* synthesis calls with the same text, resolved voice and resolved language of
\* which the first returned, the second makes no remote call, is served from
\* the cache and returns the bytes the first returned; the two make exactly one
\* generateContent call in total when the first was not itself served from the
\* cache.
C1_SecondCallServedFromCache ==
    \A c \in Calls :
        SamePairCached(c) =>
            /\ Returned(c)
            /\ RemoteCalls(calls[c]) = 0
            /\ Has(calls[c], "cacheHit")
            /\ calls[c].buffer = calls[c - 1].buffer
            /\ (~Has(calls[c - 1], "cacheHit") =>
                    RemoteCalls(calls[c - 1]) + RemoteCalls(calls[c]) = 1)

C1_Witness ==
    \E c \in Calls :
        /\ SamePairCached(c)
        /\ RemoteCalls(calls[c - 1]) = 1
        /\ Has(calls[c], "cacheHit")
        /\ calls[c].buffer = <<1>>

\* C2: a call that ends by throwing has invoked the onError hook exactly once.
C2_OnErrorExactlyOnce ==
    \A c \in Calls : Threw(c) => Count(calls[c].trace, "onError") = 1

\* C3: when generateContent returns without an inline audio payload, the call
\* fails with an error whose code is NO_AUDIO.
C3_NoAudioCode ==
    \A c \in Calls :
        Completed(c) /\ Has(calls[c], "noAudioData") =>
            calls[c].outcome = "threw" /\ calls[c].code = "NO_AUDIO"

\* C4: a synthesizeToBuffer call whose remote synthesis returned audio returns
\* that buffer even if writing the cache entry fails; a cache write failure
\* never makes the call throw.
C4_CacheWriteFailureDoesNotThrow ==
    \A c \in Calls :
        /\ Completed(c)
        /\ calls[c].op = "synthesizeToBuffer"
        /\ Has(calls[c], "writeToCache")
        => calls[c].outcome = "returned"

\* C5: once a synthesizeToFile call that reached the write of its transient raw
\* file has completed, by returning or by throwing, the transient file does not
\* exist unless the unlink of the cleanup step failed; and finding the transient
\* file already absent in the cleanup step raises no error: such a call throws
\* only what was thrown before the cleanup (NO_FFMPEG or a failed write).
C5_TransientFileRemoved ==
    \A c \in Calls :
        Completed(c) /\ calls[c].tempRawPath # NoPath =>
            /\ (~Has(calls[c], "cleanupFailed") => ~Exists(calls[c].tempRawPath))
            /\ (Has(calls[c], "cleanupAbsent") /\ ~calls[c].fsFault /\ calls[c].code # "NO_FFMPEG"
                    => calls[c].outcome = "returned")

C5_Witness ==
    \E c \in Calls :
        /\ Threw(c) /\ calls[c].code = "NO_FFMPEG"
        /\ Has(calls[c], "rawWritten") /\ Has(calls[c], "cleanupUnlinked")
        /\ ~Exists(calls[c].tempRawPath)

\* C6 as stated: every request whose voice candidate fails isValidVoice fails
\* with INVALID_VOICE, and every request whose language candidate fails
\* isValidLanguage fails with INVALID_LANGUAGE, before any remote call.
C6_Original ==
    \A c \in Calls :
        Completed(c) =>
            /\ (~isValidVoice(calls[c].voiceCandidate) =>
                    calls[c].outcome = "threw" /\ calls[c].code = "INVALID_VOICE"
                    /\ NoRemoteCall(calls[c]))
            /\ (~isValidLanguage(calls[c].languageCandidate) =>
                    calls[c].outcome = "threw" /\ calls[c].code = "INVALID_LANGUAGE"
                    /\ NoRemoteCall(calls[c]))

\* C6 amended: a call whose voice or language candidate is invalid completes
\* at once by throwing, without any generateContent call or file metadata
\* fetch; if it reached voice/language resolution (a media request, or a text
\* request with a non-empty text) the code is INVALID_VOICE when the voice
\* candidate is invalid, and INVALID_LANGUAGE when the voice candidate is valid
\* and the language candidate is not; a text request without text fails with
\* NO_TEXT instead.
C6_InvalidRejectedBeforeRemote ==
    \A c \in Calls :
        LET rec == calls[c]
            badVoice == ~isValidVoice(rec.voiceCandidate)
            badLanguage == ~isValidLanguage(rec.languageCandidate)
        IN  rec.pc \notin {"idle", "forgotten"} /\ rec.op # NoVal /\ (badVoice \/ badLanguage) =>
                /\ Threw(c)
                /\ NoRemoteCall(rec)
                /\ IF ~Has(rec, "resolveVoiceAndLanguage") THEN rec.code = "NO_TEXT"
                   ELSE IF badVoice THEN rec.code = "INVALID_VOICE"
                   ELSE rec.code = "INVALID_LANGUAGE"

C6_Witness ==
    \E c \in Calls :
        /\ Threw(c) /\ calls[c].media
        /\ isValidVoice(calls[c].voiceCandidate)
        /\ ~isValidLanguage(calls[c].languageCandidate)
        /\ calls[c].code = "INVALID_LANGUAGE"
        /\ NoRemoteCall(calls[c])

\* C7: a call writes to the cache (invokes writeToCache, is at its mkdir or its
\* writeFile) only after generateContent returned audio in that same call: never
\* a call served from the cache, a media call, or a call whose validation or
\* remote synthesis failed.
C7_CacheWrittenOnlyAfterFreshAudio ==
    \A c \in Calls :
        LET rec == calls[c] IN
        /\ (rec.pc \in {"mkdirCache", "writeFileCache"} \/ Has(rec, "writeToCache") =>
                /\ Count(rec.trace, "audioData") = 1
                /\ Precedes(rec, "audioData", "writeToCache")
                /\ ~Has(rec, "cacheHit") /\ ~Has(rec, "noAudioData")
                /\ ~rec.media /\ config.useCache)
        /\ (Threw(c) /\ rec.cause \in {"NO_AUDIO", "REMOTE_ERROR"} => ~Has(rec, "writeToCache"))
        /\ (Threw(c) /\ rec.code \in {"NO_TEXT", "INVALID_VOICE", "INVALID_LANGUAGE"} =>
                ~Has(rec, "writeToCache"))

C7_Witness ==
    \E c \in Calls :
        /\ Returned(c) /\ Has(calls[c], "cacheWritten")
        /\ Exists(CachePath(CacheKeyOf(calls[c])))
        /\ fs.files[CachePath(CacheKeyOf(calls[c]))].bytes = calls[c].buffer

\* C8: in a text synthesis call with caching on, the cache read is started and
\* has completed (as a miss) before generateContent is called, and writeToCache
\* is called only after generateContent returned audio; generateContent is
\* called at most once.
C8_CacheReadRemoteWriteOrder ==
    \A c \in Calls :
        LET rec == calls[c] IN
        rec.op # NoVal /\ ~rec.media /\ config.useCache =>
            /\ Precedes(rec, "readFromCache", "generateContent")
            /\ Precedes(rec, "cacheMiss", "generateContent")
            /\ (Has(rec, "generateContent") => Has(rec, "readFromCache") /\ Has(rec, "cacheMiss"))
            /\ Precedes(rec, "generateContent", "audioData")
            /\ Precedes(rec, "audioData", "writeToCache")
            /\ (Has(rec, "writeToCache") => Has(rec, "audioData"))
            /\ RemoteCalls(rec) <= 1

C8_Witness ==
    \E c \in Calls :
        /\ config.useCache /\ Returned(c)
        /\ Has(calls[c], "readFromCache") /\ Has(calls[c], "generateContent")
        /\ Has(calls[c], "cacheWritten")

\* C9: every successful synthesis call, including one served from the cache,
\* invokes the afterSynthesize hook exactly once.
C9_AfterSynthesizeExactlyOnce ==
    \A c \in Calls : Returned(c) => Count(calls[c].trace, "afterSynthesize") = 1

\* C10: every call of a synthesize* method invokes beforeSynthesize exactly
\* once, as the first thing it does: before the text check, the voice/language
\* validation, every cache access and every remote call.
C10_BeforeSynthesizeFirstAndOnce ==
    \A c \in Calls :
        LET rec == calls[c] IN
        rec.pc \notin {"idle", "forgotten"} /\ rec.op # NoVal =>
            /\ Count(rec.trace, "beforeSynthesize") = 1
            /\ rec.trace[1] = "beforeSynthesize"

C10_Witness ==
    \E c \in Calls :
        /\ Threw(c) /\ calls[c].code = "INVALID_VOICE"
        /\ calls[c].op = "synthesizeToStream"
        /\ calls[c].trace[1] = "beforeSynthesize"
        /\ NoRemoteCall(calls[c])

\* C11 as stated: whenever the transcoder invocation failed after the transient
\* raw file was written, the completed call has returned, the final path holds
\* exactly the raw synthesized bytes, and the transient file is gone.
C11_Original ==
    \A c \in Calls :
        Completed(c) /\ Has(calls[c], "conversionFailed") =>
            /\ calls[c].outcome = "returned"
            /\ Exists(calls[c].filePath)
            /\ fs.files[calls[c].filePath] = RawContent(calls[c].buffer)
            /\ ~Exists(calls[c].tempRawPath)

\* C11 amended: after a failed transcoder invocation the call goes on to write
\* the raw bytes to the final path and does not throw for the conversion
\* failure.  If that write succeeds the call returns, the final path holds
\* exactly the raw synthesized bytes, and the transient file is gone once the
\* cleanup deletion has succeeded; if that write fails the call throws the
\* filesystem error of the write, after the same cleanup.
C11_ConversionFailureSavesRaw ==
    \A c \in Calls :
        LET rec == calls[c] IN
        Has(rec, "conversionFailed") =>
            /\ rec.pc \in {"fallbackWrite", "cleanup", "done"}
            /\ (Has(rec, "rawSaved") =>
                    /\ rec.outcome = "returned"
                    /\ Exists(rec.filePath)
                    /\ fs.files[rec.filePath] = RawContent(rec.buffer))
            /\ (rec.pc \in {"cleanup", "done"} /\ ~Has(rec, "rawSaved") =>
                    rec.outcome = "threw" /\ rec.fsFault /\ rec.code = NoVal)
            /\ (Completed(c) =>
                    /\ Has(rec, "cleanupUnlinked") \/ Has(rec, "cleanupFailed")
                          \/ Has(rec, "cleanupAbsent")
                    /\ (~Has(rec, "cleanupFailed") => ~Exists(rec.tempRawPath)))

C11_Witness ==
    \E c \in Calls :
        /\ Returned(c) /\ Has(calls[c], "conversionFailed") /\ Has(calls[c], "rawSaved")
        /\ calls[c].buffer = <<1>>
        /\ fs.files[calls[c].filePath] = RawContent(<<1>>)
        /\ ~Exists(calls[c].tempRawPath)

\* C12 as stated: whenever the transcoder probe failed, the completed call has
\* thrown NO_FFMPEG with a suggestion, the transcoder was never invoked, no
\* file is at the final path, and the transient file is gone.
C12_Original ==
    \A c \in Calls :
        Completed(c) /\ Has(calls[c], "ffmpegMissing") =>
            /\ calls[c].outcome = "threw" /\ calls[c].code = "NO_FFMPEG"
            /\ Truthy(calls[c].suggestion)
            /\ ~Has(calls[c], "converted") /\ ~Has(calls[c], "conversionFailed")
            /\ ~Exists(calls[c].filePath)
            /\ ~Exists(calls[c].tempRawPath)

\* C12 amended: when the transcoder probe fails, the call throws NO_FFMPEG
\* with a suggestion, the transcoder is never invoked, no file is created at
\* the final path, and the transient raw file is gone once the cleanup
\* deletion has succeeded (a failed deletion is ignored and leaves it).
C12_NoFFmpeg ==
    \A c \in Calls :
        LET rec == calls[c] IN
        Has(rec, "ffmpegMissing") =>
            /\ rec.pc \in {"cleanup", "done"}
            /\ rec.outcome = "threw" /\ rec.code = "NO_FFMPEG"
            /\ Truthy(rec.suggestion)
            /\ ~Has(rec, "converted") /\ ~Has(rec, "conversionFailed")
            /\ ~Has(rec, "rawSaved")
            /\ ~Exists(rec.filePath)
            /\ (Completed(c) /\ ~Has(rec, "cleanupFailed") => ~Exists(rec.tempRawPath))

C12_Witness ==
    \E c \in Calls :
        /\ Threw(c) /\ Has(calls[c], "ffmpegMissing")
        /\ calls[c].code = "NO_FFMPEG"
        /\ calls[c].suggestion = "Install ffmpeg and ensure it is in your PATH."
        /\ Has(calls[c], "cleanupUnlinked")
        /\ ~Exists(calls[c].filePath) /\ ~Exists(calls[c].tempRawPath)

\* C13: a call of synthesizeToBuffer, synthesizeToFile or synthesizeToStream
\* with no file and no files whose text is absent, empty or not a string
\* completes at once by throwing NO_TEXT: after beforeSynthesize and the text
\* check it only reports the error; it resolves no voice or language, accesses
\* no cache, makes no remote call and leaves the filesystem as it was.
C13_NoTextFailsImmediately ==
    \A c \in Calls :
        LET rec == calls[c] IN
        /\ rec.op \in {"synthesizeToBuffer", "synthesizeToFile", "synthesizeToStream"}
        /\ ~rec.fileInput
        /\ rec.textCandidate \in {NoVal, "", NonStringText}
        =>  /\ Threw(c) /\ rec.code = "NO_TEXT"
            /\ \A i \in 1..Len(rec.trace) :
                   rec.trace[i] \in {"beforeSynthesize", "textCheck", "onError"}
            /\ NoRemoteCall(rec)
            /\ rec.voice = NoVal /\ rec.language = NoVal
            /\ \A p \in DOMAIN fs.files : p.dir = cacheDir

C13_Witness ==
    \E c \in Calls :
        /\ Threw(c) /\ calls[c].code = "NO_TEXT"
        /\ calls[c].op = "synthesizeToBuffer"
        /\ calls[c].textCandidate = NonStringText
        /\ config.useCache
        /\ ~Has(calls[c], "readFromCache") /\ ~Has(calls[c], "resolveVoiceAndLanguage")

\* C14: every error a call throws to its caller is a TtsEngineError carrying a
\* code (a thrown error that is not a TtsEngineError is recorded with no code).
C14_AlwaysTtsEngineError ==
    \A c \in Calls : Threw(c) => calls[c].code # NoVal

InFlight(c) == calls[c].pc \notin {"idle", "done", "forgotten"}

\* the content of the file at path p, NoVal when there is none
FileAt(f, p) == IF p \in DOMAIN f.files THEN f.files[p] ELSE [fmt |-> NoVal, bytes |-> <<>>]

\* call d is in flight and has written the file at p as its transient raw
\* file or as its final artifact
OwnsFile(d, p) ==
    /\ InFlight(d)
    /\ \/ p = calls[d].tempRawPath /\ Has(calls[d], "rawWritten")
       \/ p = calls[d].filePath /\ (Has(calls[d], "converted") \/ Has(calls[d], "rawSaved"))

\* C15: no step of a synthesizeToFile call overwrites or deletes a file that
\* another call still in flight has written as its transient raw file or as
\* its final artifact.
C15_ConcurrentCallsIndependent ==
    [][\A c, d \in Calls : \A p \in DOMAIN fs.files :
          /\ c # d
          /\ calls'[c] # calls[c]
          /\ calls[c].op = "synthesizeToFile"
          /\ OwnsFile(d, p)
          => FileAt(fs', p) = FileAt(fs, p)]_vars

\* C16: once concurrent text synthesis calls that wrote the cache entry of the
\* same key have all completed, without any filesystem failure, the entry
\* holds exactly the buffer of one of them, and each returned the buffer it
\* synthesized itself.
C16_LastWriterWins ==
    \A c, d \in Calls :
        /\ c # d
        /\ \A e \in Calls : calls[e].pc \in {"idle", "done"}
        /\ faults = 0
        /\ Returned(c) /\ Returned(d)
        /\ Has(calls[c], "cacheWritten") /\ Has(calls[d], "cacheWritten")
        /\ CacheKeyOf(calls[c]) = CacheKeyOf(calls[d])
        =>  /\ Exists(CachePath(CacheKeyOf(calls[c])))
            /\ fs.files[CachePath(CacheKeyOf(calls[c]))].bytes
                  \in {calls[c].buffer, calls[d].buffer}

\* C17: a cache read never throws: once it is over the call was either served
\* the entry's bytes or took a miss and went on to the remote call, also when
\* stat or readFile failed on an existing entry.  The bytes a hit returns are
\* the bytes of the entry; and after a call has written an entry (it returned
\* after its remote call with caching on), the next call with the same key
\* whose read does not fail is served bytes identical to the ones written.
C17_CacheRoundTrip ==
    \A c \in Calls :
        LET rec == calls[c]
            path == CachePath(CacheKeyOf(rec))
        IN  /\ (Has(rec, "readFromCache") /\ rec.pc \notin {"stat", "readFile"} =>
                   \/ Has(rec, "cacheHit") /\ ~Has(rec, "cacheMiss")
                   \/ Has(rec, "cacheMiss") /\ Has(rec, "generateContent")
                         /\ Precedes(rec, "cacheMiss", "generateContent"))
            /\ (Has(rec, "cacheHit") /\ (\A d \in Calls : d > c => calls[d].pc = "idle") =>
                   Exists(path) /\ fs.files[path].bytes = rec.buffer)
            /\ (/\ c - 1 \in Calls /\ config.useCache
                /\ Returned(c - 1) /\ Has(calls[c - 1], "generateContent")
                /\ Has(rec, "readFromCache") /\ rec.pc \notin {"stat", "readFile"}
                /\ CacheKeyOf(rec) = CacheKeyOf(calls[c - 1])
                /\ ~rec.fsFault
                => Has(rec, "cacheHit") /\ rec.buffer = calls[c - 1].buffer)

C17_Witness ==
    \E c \in Calls :
        /\ c - 1 \in Calls /\ Returned(c - 1) /\ Has(calls[c - 1], "generateContent")
        /\ CacheKeyOf(calls[c]) = CacheKeyOf(calls[c - 1])
        /\ calls[c].fsFault
        /\ Has(calls[c], "cacheMiss") /\ Has(calls[c], "generateContent")
        /\ Returned(c)

\* the (text, voice, language) triples with catalog voice and language
KeyTriples == ResolveTexts \X VoiceNames \X LanguageCodes

\* C18: the key a text synthesis call computes for its cache access is the
\* key of its (text, resolved voice, resolved language), and among the triples
\* with a catalog voice and a catalog language exactly the identical triple
\* has that key: a triple that differs in any component has a different key.
C18_CacheKeyInjective ==
    \A c \in Calls :
        LET rec == calls[c] IN
        rec.pc = "stat" =>
            /\ <<rec.text, rec.voice, rec.language>> \in KeyTriples
            /\ \A t \in KeyTriples :
                  (getCacheKey(t[1], t[2], t[3]) = CacheKeyOf(rec))
                      <=> (t = <<rec.text, rec.voice, rec.language>>)

C18_Witness ==
    \E c \in Calls :
        /\ calls[c].pc = "stat"
        /\ calls[c].text = "hiPuck" /\ calls[c].voice = "Kore"
        /\ calls[c].language = "en-US"
        /\ CacheKeyOf(calls[c]) = Sha256Hex("hiPuckKoreen-US")
        /\ CacheKeyOf(calls[c]) # getCacheKey("hi", "Puck", "en-US")

\* C20: the voice a call validates and uses is the request's voice if it is
\* set (non-empty), else the configured defaultVoice if set, else a voice of
\* the catalog; the language is the request's language if set, else the
\* configured defaultLanguage if set, else "en-US".
C20_ResolutionPrecedence ==
    \A c \in Calls :
        LET rec == calls[c]
            req == rec.request
            reqVoice == req.voice \notin {NoVal, ""}
            reqLanguage == req.language \notin {NoVal, ""}
            resolved == Has(rec, "resolveVoiceAndLanguage")
                           /\ rec.code \notin {"INVALID_VOICE", "INVALID_LANGUAGE"}
        IN  rec.op # NoVal =>
            /\ (reqVoice => rec.voiceCandidate = req.voice)
            /\ (~reqVoice /\ config.defaultVoice # NoVal =>
                    rec.voiceCandidate = config.defaultVoice)
            /\ (~reqVoice /\ config.defaultVoice = NoVal =>
                    rec.voiceCandidate \in VoiceNames)
            /\ (reqLanguage => rec.languageCandidate = req.language)
            /\ (~reqLanguage /\ config.defaultLanguage # NoVal =>
                    rec.languageCandidate = config.defaultLanguage)
            /\ (~reqLanguage /\ config.defaultLanguage = NoVal =>
                    rec.languageCandidate = "en-US")
            /\ (resolved =>
                    rec.voice = rec.voiceCandidate /\ rec.language = rec.languageCandidate)
            /\ (Has(rec, "resolveVoiceAndLanguage") /\ rec.code = "INVALID_VOICE" =>
                    ~isValidVoice(rec.voiceCandidate))
            /\ (Has(rec, "resolveVoiceAndLanguage") /\ rec.code = "INVALID_LANGUAGE" =>
                    ~isValidLanguage(rec.languageCandidate))

C20_Witness ==
    \E c \in Calls :
        /\ calls[c].op = "synthesizeFromFile"
        /\ config.defaultVoice = "Kore" /\ config.defaultLanguage = "fr-FR"
        /\ calls[c].request.voice = "Sulafat" /\ calls[c].request.language = ""
        /\ calls[c].voice = "Sulafat" /\ calls[c].language = "fr-FR"

\* the entries of the cache directory
CacheEntries(f) == [p \in {q \in DOMAIN f.files : q.dir = cacheDir} |-> f.files[p]]

CacheEvents == {"readFromCache", "cacheHit", "cacheMiss", "writeToCache", "cacheWritten"}

\* C19: a call whose request has a file or files never reads or writes the
\* cache, with caching on or off: no step of it changes the cache directory or
\* its entries, it is never at a cache access, and when it returns audio it has
\* made its generateContent call (it is never served from the cache).
C19_MediaNeverTouchesCache ==
    [][\A c \in Calls :
          LET rec == calls'[c] IN
          rec.fileInput /\ rec.op # NoVal =>
              /\ CacheEntries(fs') = CacheEntries(fs)
              /\ (cacheDir \in fs'.dirs) = (cacheDir \in fs.dirs)
              /\ rec.pc \notin {"stat", "readFile", "mkdirCache", "writeFileCache"}
              /\ \A i \in 1..Len(rec.trace) : rec.trace[i] \notin CacheEvents
              /\ (rec.outcome = "returned" =>
                     Count(rec.trace, "generateContent") = 1 /\ Has(rec, "audioData"))]_vars

C19_Witness ==
    \E c \in Calls :
        /\ config.useCache /\ Returned(c)
        /\ calls[c].fileInput /\ calls[c].op = "synthesizeToBuffer"
        /\ calls[c].textCandidate = "hi"
        /\ calls[c].voice = "Puck" /\ calls[c].language = "en-US"
        /\ Exists(CachePath(getCacheKey("hi", "Puck", "en-US")))
        /\ Has(calls[c], "generateContent")

\* C21: a call of synthesizeToBuffer, synthesizeToFile or synthesizeToStream
\* whose request has a file or files is processed by synthesizeFromFile, also
\* when the request has a text: the text check is not made and NO_TEXT is not
\* thrown, the text is not taken as the content to synthesize and is no part of
\* the payload, and the only generateContent call is the media one.
C21_FileInputTakesMediaPath ==
    \A c \in Calls :
        LET rec == calls[c] IN
        /\ rec.op \in {"synthesizeToBuffer", "synthesizeToFile", "synthesizeToStream"}
        /\ rec.fileInput
        =>  /\ rec.media
            /\ rec.text = NoVal
            /\ ~Has(rec, "textCheck") /\ rec.code # "NO_TEXT"
            /\ \A i \in 1..Len(rec.contentParts) :
                   rec.contentParts[i].type = "text" =>
                       rec.contentParts[i].text # rec.textCandidate

C21_Witness ==
    \E c \in Calls :
        /\ calls[c].op = "synthesizeToStream"
        /\ calls[c].fileInput /\ calls[c].textCandidate = "hi"
        /\ calls[c].pc = "generateContent" /\ calls[c].media
        /\ calls[c].contentParts = <<FilePart(MetaOk), TextPart("Describe this file")>>

\* the entries of [file, ...files] that are not empty (neither undefined nor
\* the empty string), in their order
NonEmptyEntries(options) ==
    SelectSeq(<<options.file>> \o options.files.list,
              LAMBDA f : f.kind = "object" \/ (f.kind = "string" /\ f.name # ""))

\* part is the file part made for entry f: of f's own uri and mimeType when f
\* is a FileMetadata object, of the fetched metadata when f is a file name
IsPartOf(part, f) ==
    /\ part.type = "file"
    /\ IF f.kind = "object"
       THEN part = FilePart(f)
       ELSE \E m \in RemoteMetas : m.name = f.name /\ part = FilePart(m)

\* C22: when a media call makes its remote synthesis call and a prompt is
\* supplied or at least one file is present, the payload is one file part per
\* non-empty entry of [file, ...files], in that order, followed by exactly one
\* text part, the last element: the prompt when one is supplied, otherwise
\* "Describe this file".
C22_PayloadOrder ==
    \A c \in Calls :
        LET rec == calls[c]
            entries == NonEmptyEntries(rec.request)
            n == Len(entries)
            parts == rec.contentParts
        IN  /\ rec.media /\ rec.pc = "generateContent"
            /\ (Truthy(rec.request.prompt) \/ n > 0)
            =>  /\ Len(parts) = n + 1
                /\ \A i \in 1..n : IsPartOf(parts[i], entries[i])
                /\ parts[n + 1] =
                       TextPart(IF Truthy(rec.request.prompt) THEN rec.request.prompt
                                ELSE "Describe this file")

C22_Witness ==
    \E c \in Calls :
        /\ calls[c].media /\ calls[c].pc = "generateContent"
        /\ calls[c].request.file = FName
        /\ calls[c].request.files = [present |-> TRUE, list |-> <<MetaOk>>]
        /\ calls[c].request.prompt = NoVal
        /\ Len(calls[c].contentParts) = 3
        /\ calls[c].contentParts[1].uri = "uri:a"
        /\ calls[c].contentParts[2] = FilePart(MetaOk)
        /\ calls[c].contentParts[3] = TextPart("Describe this file")

\* C23: whenever a media call makes its remote synthesis call, its payload has
\* at least one file part.
C23_MediaPayloadHasFile ==
    \A c \in Calls :
        calls[c].media /\ calls[c].pc = "generateContent" =>
            NumFileParts(calls[c].contentParts) > 0

\* the descriptor has all three of name, uri and mimeType
HasIdentity(file) == file.name # "" /\ file.uri # "" /\ file.mimeType # ""

\* C24: a completed uploadFile, listFiles or getFile call returned only
\* descriptors that have name, uri and mimeType, namely all those the remote
\* store handed it, and it threw FILE_METADATA_ERROR, returning nothing, as
\* soon as the store handed it a descriptor lacking one of the three; a
\* deleteFile call whose remote delete did not reject returned; and every
\* call of the four that threw invoked onError, exactly once, before throwing.
C24_FileOperations ==
    \A c \in Calls :
        LET rec == calls[c]
            incomplete == \E i \in 1..Len(rec.received) : ~HasIdentity(rec.received[i])
        IN  rec.op \in FileOps /\ Completed(c) =>
            /\ (rec.outcome = "returned" =>
                    /\ rec.files = rec.received
                    /\ \A i \in 1..Len(rec.files) : HasIdentity(rec.files[i])
                    /\ rec.op \in {"uploadFile", "getFile"} => Len(rec.files) = 1)
            /\ (incomplete =>
                    /\ rec.outcome = "threw" /\ rec.code = "FILE_METADATA_ERROR"
                    /\ ~HasIdentity(rec.received[Len(rec.received)]))
            /\ (rec.op = "deleteFile" /\ rec.cause # "REMOTE_ERROR" => rec.outcome = "returned")
            /\ (rec.outcome = "threw" =>
                    /\ Count(rec.trace, "onError") = 1
                    /\ rec.trace[Len(rec.trace)] = "onError"
                    /\ rec.code = "FILE_METADATA_ERROR" \/ rec.cause = "REMOTE_ERROR")

C24_Witness ==
    \E c \in Calls :
        /\ Threw(c) /\ calls[c].op = "listFiles"
        /\ calls[c].code = "FILE_METADATA_ERROR"
        /\ Len(calls[c].received) = 2 /\ Len(calls[c].files) = 1
        /\ HasIdentity(calls[c].received[1])
        /\ calls[c].received[2].mimeType = ""
        /\ Count(calls[c].trace, "onError") = 1

\* C25: the constructor throws NO_API_KEY exactly when no API key is given in
\* the config, as a bare string or in GEMINI_API_KEY; then no engine exists
\* and no operation is ever invoked; an engine that exists has a key.  What
\* the constructor does with a bare string is what it does with a config
\* object holding only that string as apiKey.
C25_ApiKeyRequired ==
    LET arg == config.configOrApiKey
        noKey == ~Truthy(arg.apiKey) /\ ~Truthy(config.env)
    IN  /\ (config.state # "none" =>
                /\ (noKey <=> config.state = "threw")
                /\ (config.state = "threw" =>
                        config.engine = [NotConstructed EXCEPT !.code = "NO_API_KEY"])
                /\ (config.state = "constructed" =>
                        Truthy(config.engine.apiKey) /\ config.engine.code = NoVal)
                /\ (arg.kind = "string" =>
                        config.engine = constructor(OnlyApiKey(arg.apiKey), config.env)))
        /\ (config.state # "constructed" => \A c \in Calls : calls[c] = IdleCall)

C25_Witness ==
    /\ config.state = "threw"
    /\ config.configOrApiKey = BareString("")
    /\ config.env = ""
    /\ config.engine.code = "NO_API_KEY"

RemoteEvents == {"generateContent", "getFile"}

ValidationCodes == {"NO_TEXT", "INVALID_VOICE", "INVALID_LANGUAGE", "FILE_METADATA_ERROR"}

\* C26: a synthesis call makes at most one generateContent call; a call that
\* failed validation (text, voice, language, file metadata) or whose remote
\* call failed (rejected, or returned no audio) is completed, as thrown, and
\* made no remote call after the failure: every remote call in its trace comes
\* before every error report.
C26_NoAutomaticRetry ==
    \A c \in Calls :
        LET rec == calls[c] IN
        /\ RemoteCalls(rec) <= 1
        /\ \A e \in RemoteEvents : Precedes(rec, e, "onError")
        /\ (rec.code \in ValidationCodes \/ rec.cause \in {"REMOTE_ERROR", "NO_AUDIO"} =>
                /\ Threw(c)
                /\ rec.code \in ValidationCodes => ~Has(rec, "generateContent"))

C26_Witness ==
    \E c \in Calls :
        /\ Threw(c) /\ calls[c].op = "synthesizeToFile"
        /\ calls[c].cause = "REMOTE_ERROR" /\ calls[c].code = "SYNTH_ERROR"
        /\ RemoteCalls(calls[c]) = 1
        /\ calls[c].trace[Len(calls[c].trace)] = "onError"

\* what voice and language validation gave a call: the resolved pair, or the
\* code and the suggestion of the error
Validation(rec) ==
    [ voice |-> rec.voice, language |-> rec.language,
      code |-> IF rec.outcome = "threw" THEN rec.code ELSE NoVal,
      suggestion |-> rec.suggestion ]

\* the random choices with which the call's voice candidate comes about
SameChoice(rec) ==
    IF NeedsRandom(rec.request, config)
    THEN {idx \in RandomIdxs : getRandomVoice(idx) = rec.voiceCandidate}
    ELSE {1}

\* C27: whatever voice and language validation gives a call on one path (the
\* text path of synthesizeToBuffer with a valid text, or synthesizeFromFile),
\* it gives on the other path for the same request voice and language, the
\* same configuration and the same random choice: the same resolved pair, or
\* the same error code with the same suggestion.
C27_SameValidationOnBothPaths ==
    \A c \in Calls :
        LET rec == calls[c]
            otherOp == IF rec.op = "synthesizeFromFile" THEN "synthesizeToBuffer"
                       ELSE "synthesizeFromFile"
        IN  rec.op \in ResolveOps =>
                /\ rec.media <=> rec.op = "synthesizeFromFile"
                /\ Has(rec, "resolveVoiceAndLanguage")
                /\ \A idx \in SameChoice(rec) :
                      Validation(Enter(otherOp, rec.request, config, idx)) = Validation(rec)

C27_Witness ==
    \E c \in Calls :
        /\ calls[c].op = "synthesizeFromFile" /\ Threw(c)
        /\ calls[c].request.voice = NoVal /\ config.defaultVoice = NoVal
        /\ calls[c].voiceCandidate = "Puck"
        /\ calls[c].request.language = "en"
        /\ calls[c].code = "INVALID_LANGUAGE"
        /\ calls[c].suggestion = "Did you mean 'en-US'?"

\* the hint for input: the first entry of the catalog, in catalog order, whose
\* lower-cased identifier starts with the lower-cased input, or the generic
\* hint at the catalog called name
ExpectedHint(catalog, name, input) ==
    LET matching == {i \in 1..Len(catalog) :
                        StartsWith(ToLowerCase(catalog[i]), ToLowerCase(input))}
    IN  IF matching = {} THEN "See " \o name \o " for options."
        ELSE "Did you mean '"
                 \o catalog[CHOOSE i \in matching : \A j \in matching : i <= j]
                 \o "'?"

\* C28: a call whose voice (or, the voice being valid, whose language) is not
\* exactly a catalog entry, also when it differs from one only in letter case
\* or is a proper prefix of one, throws INVALID_VOICE (INVALID_LANGUAGE) with
\* the hint for it as suggestion; it resolves no voice (language), reads no
\* cache and makes no remote call, so the suggested value is never used.
C28_SuggestionNeverCorrects ==
    \A c \in Calls :
        LET rec == calls[c]
            badVoice == ~isValidVoice(rec.voiceCandidate)
            badLanguage == ~isValidLanguage(rec.languageCandidate)
        IN  rec.op \in ResolveOps /\ (badVoice \/ badLanguage) =>
                /\ Threw(c)
                /\ rec.code = IF badVoice THEN "INVALID_VOICE" ELSE "INVALID_LANGUAGE"
                /\ rec.suggestion =
                      IF badVoice
                      THEN ExpectedHint(GEMINI_TTS_VOICES, "GEMINI_TTS_VOICES", rec.voiceCandidate)
                      ELSE ExpectedHint(GEMINI_TTS_LANGUAGES, "GEMINI_TTS_LANGUAGES",
                                        rec.languageCandidate)
                /\ rec.voice = NoVal /\ rec.language = NoVal
                /\ NoRemoteCall(rec) /\ ~Has(rec, "readFromCache")

C28_Witness ==
    \E c \in Calls :
        /\ Threw(c) /\ calls[c].code = "INVALID_VOICE"
        /\ calls[c].request.voice = "Al"
        /\ calls[c].suggestion = "Did you mean 'Algieba'?"
        /\ calls[c].voice = NoVal /\ NoRemoteCall(calls[c])

\* a lower-cased catalog identifier is the characters given for it
CharsOfCatalog ==
    /\ \A i \in 1..Len(GEMINI_TTS_VOICES) :
          Join(Chars(ToLowerCase(GEMINI_TTS_VOICES[i]))) = ToLowerCase(GEMINI_TTS_VOICES[i])
             /\ ToLowerCase(GEMINI_TTS_VOICES[i]) # GEMINI_TTS_VOICES[i]
    /\ \A i \in 1..Len(GEMINI_TTS_LANGUAGES) :
          Join(Chars(ToLowerCase(GEMINI_TTS_LANGUAGES[i]))) = ToLowerCase(GEMINI_TTS_LANGUAGES[i])
             /\ ToLowerCase(GEMINI_TTS_LANGUAGES[i]) # GEMINI_TTS_LANGUAGES[i]

\* C29: every index getRandomVoice can draw gives a voice of the catalog; and
\* a call with a text, without file input, whose request names no voice and
\* no language, on an engine without defaultVoice and defaultLanguage, never
\* throws INVALID_VOICE or INVALID_LANGUAGE: its voice is a catalog voice and
\* its language "en-US"; when it is a synthesizeToFile call that returned,
\* the path it returned is in the output directory, ends in .mp3 and names an
\* existing file.
C29_DefaultRequestIsValid ==
    /\ \A idx \in 1..Len(GEMINI_TTS_VOICES) : isValidVoice(getRandomVoice(idx))
    /\ \A c \in Calls :
          LET rec == calls[c] IN
          /\ rec.op # NoVal /\ ~rec.fileInput /\ ~TextMissing(rec.textCandidate)
          /\ rec.request.voice = NoVal /\ rec.request.language = NoVal
          /\ config.defaultVoice = NoVal /\ config.defaultLanguage = NoVal
          =>  /\ rec.code \notin {"INVALID_VOICE", "INVALID_LANGUAGE"}
              /\ Has(rec, "resolveVoiceAndLanguage")
              /\ isValidVoice(rec.voice) /\ rec.language = "en-US"
              /\ (rec.op = "synthesizeToFile" /\ Returned(c) =>
                      /\ rec.filePath.dir = outputDir
                      /\ rec.filePath.ext = "mp3"
                      /\ Exists(rec.filePath))

C29_Witness ==
    \E c \in Calls :
        /\ Returned(c) /\ calls[c].op = "synthesizeToFile"
        /\ calls[c].request.voice = NoVal /\ calls[c].request.language = NoVal
        /\ config.defaultVoice = NoVal /\ config.defaultLanguage = NoVal
        /\ calls[c].voice = "Zephyr" /\ calls[c].language = "en-US"
        /\ Has(calls[c], "converted")
        /\ calls[c].filePath.ext = "mp3" /\ Exists(calls[c].filePath)

\* C30: once the transcoder has converted successfully in a synthesizeToFile
\* call, the call never takes the raw-bytes fallback, also when the deletion
\* of the transient file right after the conversion fails: it is never at the
\* fallback write, never saves the raw bytes, and the file at the final path
\* stays the transcoder's output.
C30_FallbackOnlyOnConversionFailure ==
    \A c \in Calls :
        LET rec == calls[c] IN
        Has(rec, "converted") =>
            /\ rec.pc # "fallbackWrite"
            /\ ~Has(rec, "rawSaved")
            /\ Exists(rec.filePath)
            /\ fs.files[rec.filePath] = Mp3Content(rec.buffer)

(***************************************************************************)
(* Failures ahead of the audio, and the filesystem.                         *)
(***************************************************************************)
\* the call threw for one of the reasons that precede the audio: a rejected
\* request, incomplete file metadata, a failed remote call, or a response
\* without audio data
FailedBeforeAudio(rec) ==
    /\ rec.pc = "done" /\ rec.outcome = "threw"
    /\ \/ rec.code \in {"NO_TEXT", "INVALID_VOICE", "INVALID_LANGUAGE", "FILE_METADATA_ERROR"}
       \/ rec.cause \in {"NO_AUDIO", "REMOTE_ERROR"}

\* the call holds audio: from the remote call or from the cache
ObtainedAudio(rec) == Has(rec, "audioData") \/ Has(rec, "cacheHit")

\* C31: no step of a synthesizeToFile call that has not obtained audio
\* changes the filesystem (directories and files alike), and a call that
\* fails with NO_TEXT, INVALID_VOICE, INVALID_LANGUAGE, FILE_METADATA_ERROR,
\* NO_AUDIO or a remote failure has obtained none and has chosen neither a
\* final nor a transient path.
C31_FailureBeforeAudioLeavesFilesystem ==
    [][\A c \in Calls :
          LET rec == calls'[c] IN
          rec.op = "synthesizeToFile" =>
             /\ ~ObtainedAudio(rec) => fs' = fs
             /\ FailedBeforeAudio(rec) =>
                   /\ ~ObtainedAudio(rec)
                   /\ rec.filePath = NoPath /\ rec.tempRawPath = NoPath]_vars

\* a synthesizeToFile call with caching on looked for its entry, found none,
\* got a response without audio, and threw; nothing is on the filesystem
C31_Witness ==
    \E c \in Calls :
       /\ calls[c].op = "synthesizeToFile" /\ config.useCache
       /\ Threw(c) /\ calls[c].cause = "NO_AUDIO"
       /\ Has(calls[c], "cacheMiss")
       /\ fs.dirs = {} /\ fs.files = <<>>

(***************************************************************************)
(* Sequences of synthesizeToFile and synthesizeToBuffer calls of one text   *)
(* request: the cache entry and the finishing step (lines 1086-1127).       *)
(***************************************************************************)
\* what is kept of a call once the next one starts: as Summary, and the
\* method, the error code and the completed cache write
SummaryToFile(rec) ==
    [Summary(rec) EXCEPT
        !.op = rec.op, !.code = rec.code,
        !.trace = SelectSeq(rec.trace,
                            LAMBDA e : e \in {"generateContent", "cacheHit", "cacheWritten"})]

\* the same request again, made once the call before it has completed
StartSeqFile(c) ==
    /\ calls[c].pc = "idle"
    /\ \A d \in Calls : d < c => calls[d].pc \in {"done", "forgotten"}
    /\ \E op \in ConcOps, options \in ConcRequests :
          calls' = [d \in Calls |->
                      IF d = c THEN Enter(op, options, config, 1)
                      ELSE IF d < c - 1 THEN Forgotten
                      ELSE IF d = c - 1 THEN SummaryToFile(calls[d])
                      ELSE calls[d]]
    /\ UNCHANGED <<config, fs, now, faults>>

\* the awaits a text call of either method can be pending at
StepSeqFile(c) ==
    \/ Stat(c)
    \/ ReadFile(c)
    \/ GenerateContentReturns(c)
    \/ MkdirCache(c)
    \/ WriteFileCache(c)
    \/ MkdirOutput(c)
    \/ WriteRaw(c)
    \/ CheckFFmpeg(c)
    \/ Ffmpeg(c)
    \/ UnlinkRaw(c)
    \/ FallbackWrite(c)
    \/ Cleanup(c)

NextSeqFile == \E c \in Calls : StartSeqFile(c) \/ StepSeqFile(c)

\* an engine without defaults, on an empty filesystem
InitSeqFile == InitSeq /\ config.defaultVoice = NoVal /\ config.defaultLanguage = NoVal

SpecSeqFile == InitSeqFile /\ [][NextSeqFile]_vars

\* the awaits of lines 1086-1127
FinishingPcs ==
    {"mkdirOutput", "writeRaw", "checkFFmpeg", "ffmpeg", "unlinkRaw", "fallbackWrite", "cleanup"}

\* a synthesizeToFile call threw after its synthesis step had returned audio
\* through the cache (read or written)
FailedInFinishing(rec) ==
    /\ rec.op = "synthesizeToFile" /\ rec.pc = "done" /\ rec.outcome = "threw"
    /\ Has(rec, "cacheHit") \/ Has(rec, "cacheWritten")

\* C32: with caching on, a text synthesizeToFile call enters the finishing
\* step only after its entry was read from or written to the cache; when it
\* then fails there (NO_FFMPEG, a failed write), the entry of its key is
\* still present, with the call's audio as long as no later call had a
\* filesystem failure, and the next call of the same request, if its cache
\* read does not fail, is served those bytes without a remote call.
C32_CacheEntrySurvivesFinishingFailure ==
    config.useCache =>
       \A c \in Calls :
          LET rec == calls[c]
              cachePath == CachePath(CacheKeyOf(rec))
          IN  /\ (rec.op = "synthesizeToFile" /\ rec.pc \in FinishingPcs) =>
                    Has(rec, "cacheHit") \/ Has(rec, "cacheWritten")
              /\ FailedInFinishing(rec) =>
                    /\ Exists(cachePath)
                    /\ (\A d \in Calls : d > c => ~calls[d].fsFault) =>
                          fs.files[cachePath] = RawContent(rec.buffer)
                    /\ \A d \in Calls :
                          (/\ d = c + 1
                           /\ CacheKeyOf(calls[d]) = CacheKeyOf(rec)
                           /\ ~calls[d].fsFault
                           /\ calls[d].pc \notin {"idle", "stat", "readFile"}) =>
                             /\ Has(calls[d], "cacheHit")
                             /\ RemoteCalls(calls[d]) = 0
                             /\ calls[d].buffer = rec.buffer

\* a synthesizeToFile call synthesized remotely, wrote its entry and failed
\* with NO_FFMPEG; the next call of the same request returned from the cache
C32_Witness ==
    \E c \in Calls :
       /\ c + 1 \in Calls /\ config.useCache
       /\ FailedInFinishing(calls[c]) /\ calls[c].code = "NO_FFMPEG"
       /\ Has(calls[c], "cacheWritten") /\ RemoteCalls(calls[c]) = 1
       /\ Returned(c + 1) /\ Has(calls[c + 1], "cacheHit")
       /\ RemoteCalls(calls[c + 1]) = 0
       /\ calls[c + 1].buffer = calls[c].buffer /\ calls[c].buffer # <<>>

(***************************************************************************)
(* Cache reads that overlap a cache write.                                  *)
(***************************************************************************)
\* C33: under overlapping calls of one cache key, a call served from the
\* cache returns the complete audio that some other call obtained from the
\* remote service and wrote: never an empty or partly written entry.
C33_CacheReadIsComplete ==
    \A c \in Calls :
       Has(calls[c], "cacheHit") =>
          \E d \in Calls \ {c} :
             /\ Has(calls[d], "audioData")
             /\ calls[d].buffer = calls[c].buffer

(***************************************************************************)
(* createSafeFileName over long and unusual base names and every catalog    *)
(* voice.                                                                   *)
(***************************************************************************)
LongFileNameOpts == {NoVal, "hi", LongFileName, SymbolsFileName, VeryLongFileName}

LongTextOpts == {NoVal, "hi", LongText}

\* a synthesizeToFile call whose synthesis step has returned audio in the
\* given voice: it awaits mkdir(outputDir) and then names its file
StartFileName(c) ==
    /\ c = 1
    /\ calls[c].pc = "idle"
    /\ \E fileName \in LongFileNameOpts, text \in LongTextOpts, voice \in VoiceNames :
          Set(c, [IdleCall EXCEPT
                     !.op = "synthesizeToFile",
                     !.base = BaseName([NoRequest EXCEPT !.fileName = fileName, !.text = text]),
                     !.text = text, !.voice = voice, !.language = "en-US",
                     !.buffer = <<1>>, !.pc = "mkdirOutput"])
    /\ UNCHANGED <<config, fs, now, faults>>

NextFileName == \E c \in Calls : StartFileName(c) \/ MkdirOutput(c)

SpecFileName == InitSeq /\ [][NextFileName]_vars

\* 50 + 1 + 8 + 1 + 24 + 4
LongestFileName == 50 + 1 + HashLength + 1 + TimestampLength + 4

\* C36: for every base name and every catalog voice the generated name has
\* between 1 and 88 characters (at most 50 of base and voice, the hash, the
\* timestamp, two '-' and ".mp3"), which is below 255; no call fails with
\* FILENAME_ERROR.
C36_FileNameWithinLimit ==
    \A c \in Calls :
       /\ calls[c].code # "FILENAME_ERROR"
       /\ calls[c].pc = "mkdirOutput" =>
             \A timestamp \in 0..MaxTime :
                LET fileName == createSafeFileName(calls[c].base, calls[c].voice, timestamp)
                IN  /\ fileName.length >= 1
                    /\ fileName.length <= LongestFileName
                    /\ LongestFileName <= MaxFileNameLength
                    /\ fileName.name[1] # ""
                    /\ Len(fileName.name[1]) <= 20 + 1 + 13

\* a file name of 300 characters and the longest voice name have been turned
\* into a path
C36_Witness ==
    \E c \in Calls :
       /\ calls[c].base = VeryLongFileName /\ calls[c].voice = "Zubenelgenubi"
       /\ calls[c].pc = "writeRaw"
       /\ Len(calls[c].filePath.name[1]) = 34

(***************************************************************************)
(* The transient and the final path of a synthesizeToFile call.             *)
(***************************************************************************)
\* C34: once a synthesizeToFile call has named its file, the final path ends
\* in .mp3 and the transient path is the same path with .raw in its place,
\* so the two differ; the write of the transient file and the unlinks of it
\* (line 1107 and the finally block) leave the file at the final path as it
\* was.
C34_TransientPathIsNotFinalPath ==
    [][\A c \in Calls :
          LET old == calls[c]
              new == calls'[c]
          IN  /\ new.filePath # NoPath =>
                    /\ new.filePath.ext = "mp3"
                    /\ new.tempRawPath = [new.filePath EXCEPT !.ext = "raw"]
                    /\ new.tempRawPath # new.filePath
              /\ (old.pc \in {"writeRaw", "unlinkRaw", "cleanup"} /\ new # old) =>
                    FileAt(fs', old.filePath) = FileAt(fs, old.filePath)]_vars

\* a call has returned: its mp3 is at the final path and the finally block
\* has unlinked the transient file
C34_Witness ==
    \E c \in Calls :
       /\ Returned(c) /\ calls[c].op = "synthesizeToFile"
       /\ Has(calls[c], "rawWritten") /\ Has(calls[c], "cleanupUnlinked")
       /\ Exists(calls[c].filePath) /\ ~Exists(calls[c].tempRawPath)
       /\ calls[c].tempRawPath # NoPath

(***************************************************************************)
(* The voice and the language of a result.                                  *)
(***************************************************************************)
\* C35: a call that has returned, and a synthesizeToFile call whose synthesis
\* step has returned (from the remote service or from the cache), carries a
\* voice of the voice catalog and a language of the language catalog: those
\* resolved at the start of the call from the options, the engine's defaults
\* and the random choice.
C35_ResultVoiceAndLanguageValid ==
    \A c \in Calls :
       (Returned(c) \/ calls[c].pc \in FinishingPcs) =>
          /\ calls[c].voice \in VoiceNames
          /\ calls[c].language \in LanguageCodes
          /\ calls[c].voice = calls[c].voiceCandidate
          /\ calls[c].language = calls[c].languageCandidate

\* a synthesizeToFile call served from the cache has returned
C35_Witness ==
    \E c \in Calls :
       /\ Returned(c) /\ calls[c].op = "synthesizeToFile"
       /\ Has(calls[c], "cacheHit")
       /\ calls[c].voice = "Puck" /\ calls[c].language = "en-US"

(***************************************************************************)
(* An engine without caching.                                               *)
(***************************************************************************)
\* C37: on an engine whose useCache is false (the constructor's
\* !!config.useCache of an absent or false option), no step changes the
\* cache directory or its entries, no call is at a cache access or has made
\* one, and a text call that returns has made exactly one generateContent
\* call and holds the audio of that call.
C37_NoCacheWithoutUseCache ==
    [][~config.useCache =>
          /\ CacheEntries(fs') = CacheEntries(fs)
          /\ (cacheDir \in fs'.dirs) = (cacheDir \in fs.dirs)
          /\ \A c \in Calls :
                LET rec == calls'[c] IN
                /\ rec.pc \notin {"stat", "readFile", "mkdirCache", "writeFileCache"}
                /\ \A i \in 1..Len(rec.trace) : rec.trace[i] \notin CacheEvents
                /\ (rec.outcome = "returned" /\ ~rec.media) =>
                      /\ Count(rec.trace, "generateContent") = 1
                      /\ Has(rec, "audioData")]_vars

\* without caching, a text call whose key has an entry in the cache directory
\* has returned after one remote call, and the entry is as it was
C37_Witness ==
    \E c \in Calls :
       /\ ~config.useCache /\ Returned(c) /\ ~calls[c].media
       /\ calls[c].text = "hi" /\ calls[c].voice = "Puck" /\ calls[c].language = "en-US"
       /\ Exists(CachePath(CacheKeyOf(calls[c])))
       /\ RemoteCalls(calls[c]) = 1
       /\ fs.files[CachePath(CacheKeyOf(calls[c]))].bytes # calls[c].buffer

(***************************************************************************)
(* Termination of synthesizeToFile.  Every await of a call is on an         *)
(* external operation (the remote service, the filesystem, ffmpeg); when    *)
(* each of them settles, the event loop resumes the call: the step of a     *)
(* pending call is taken eventually.                                        *)
(***************************************************************************)
\* one call of synthesizeToFile
StartToFile(c) ==
    /\ c = 1
    /\ calls[c].pc = "idle"
    /\ \E options \in Requests :
          \E idx \in (IF NeedsRandom(options, config) THEN RandomIdxs ELSE {1}) :
              Set(c, Enter("synthesizeToFile", options, config, idx))
    /\ UNCHANGED <<config, fs, now, faults>>

NextLive == \E c \in Calls : StartToFile(c) \/ Step(c)

SpecLive == Init /\ [][NextLive]_vars /\ \A c \in Calls : WF_vars(Step(c))

\* the unlink of the finally block has settled
CleanupRan(rec) ==
    Has(rec, "cleanupUnlinked") \/ Has(rec, "cleanupFailed") \/ Has(rec, "cleanupAbsent")

\* C38: every synthesizeToFile call eventually completes, returning or
\* throwing, and when it has written or was about to write a transient file
\* (tempRawPath is set) the unlink of the finally block has settled by then.
C38_ToFileTerminatesAfterCleanup ==
    \A c \in Calls :
       (calls[c].op = "synthesizeToFile") ~>
          (/\ Completed(c)
           /\ calls[c].outcome \in {"returned", "threw"}
           /\ calls[c].tempRawPath # NoPath => CleanupRan(calls[c]))

\* a call that failed with NO_FFMPEG has completed after the finally block
\* unlinked its transient file
C38_Witness ==
    \E c \in Calls :
       /\ calls[c].op = "synthesizeToFile" /\ Completed(c)
       /\ calls[c].tempRawPath # NoPath /\ Has(calls[c], "cleanupUnlinked")
       /\ calls[c].outcome = "threw" /\ calls[c].code = "NO_FFMPEG"

====
